---- MODULE Spec2Model ----
(***************************************************************************)
(* Control plane of STunnel-Pro: the tunnel HTTP handlers                  *)
(* (handlers.TunnelHandler), the tunnel service (services.TunnelService)   *)
(* with its in-process registry activeTunnels, the per-instance monitor    *)
(* goroutine, the tunnels table behind gorm, and the WebSocket hub         *)
(* (services.WebSocketService) with its clients' Send channels.            *)
(*                                                                         *)
(* Granularity: one step is one SQL statement, or one critical section of  *)
(* tunnelsMux (the registry is only ever touched with tunnelsMux held, so  *)
(* a critical section is atomic for every other goroutine).  Purely local  *)
(* computation is merged into the following shared access.                 *)
(***************************************************************************)
EXTENDS Integers, Sequences, FiniteSets, TLC

----------------------------------------------------------------------------
(* Bounds of the model *)

MaxIds   == 2    \* tunnel rows that can ever be inserted
MaxProcs == 2    \* TunnelProcess instances that can ever be spawned
MaxTicks == 1    \* ticker firings per monitor goroutine
MaxOps   == 4    \* HTTP requests ever issued

SendCap  == 2    \* capacity of a client's Send channel (the code makes 256)
MaxMsgs  == SendCap    \* broadcasts ever made: enough to fill a channel

Ids  == 1..MaxIds
Pids == 1..MaxProcs
Reqs == {"r1", "r2"}    \* HTTP requests in flight at once
Updaters   == {"u1", "u2"}    \* goroutines that call UpdateTunnelStats
MonClients == {"m1", "m2", "m3"}   \* client ids of the monitoring service
RateLimitRequests == 2        \* cfg.Security.RateLimitRequests
LimitReqs == 1..(RateLimitRequests + 1)   \* requests inside the middleware
Calls == {"k1", "k2"}    \* AuthService calls that can be in flight at once
ClientIds == {"c1", "c2"}   \* WebSocket connections that can ever be opened

None == "none"

----------------------------------------------------------------------------
(* models: users, roles, limits, tunnel enums *)

RoleAdmin     == "admin"
RoleModerator == "moderator"
RoleUser      == "user"
RoleGuest     == "guest"

Users == {"alice", "bob"}

\* accounts that own no tunnel and only call the handlers of others' tunnels
Callers == Users \cup {"carol", "dave"}

\* User.Role of the accounts of the model
Role == [u \in Callers |->
            CASE u = "alice" -> RoleUser
              [] u = "bob"   -> RoleModerator
              [] u = "carol" -> RoleGuest
              [] OTHER       -> RoleAdmin]

\* User.Limits.MaxTunnels of the two accounts (a policy input, min=0 max=1000)
MaxTunnels == [u \in Users |-> 1]

contains(slice, item) == item \in slice

\* (mutation: every role has every permission)
CanPerformAction_Any(u, action) == TRUE

CanPerformAction(u, action) ==
    CASE Role[u] = RoleAdmin     -> TRUE
      [] Role[u] = RoleModerator ->
            contains({"view_all_tunnels", "manage_users", "view_logs", "manage_tunnels"}, action)
      [] Role[u] = RoleUser      ->
            contains({"create_tunnel", "manage_own_tunnels", "view_own_logs", "update_profile"}, action)
      [] Role[u] = RoleGuest     ->
            contains({"view_public_info", "update_profile"}, action)
      [] OTHER -> FALSE

TunnelStatusActive     == "active"
TunnelStatusInactive   == "inactive"
TunnelStatusError      == "error"
TunnelStatusConnecting == "connecting"

TunnelStatuses == {TunnelStatusActive, TunnelStatusInactive,
                   TunnelStatusError, TunnelStatusConnecting}

TunnelProtocols == {"tcp", "udp", "ws", "wss", "tcpmux", "wsmux", "wssmux",
                    "utcpmux", "uwsmux"}

\* request inputs are drawn from these samples
Names          == {"a", "b"}
ProtocolSample == {"tcp"}
PortSample     == {0, 8080}
IPSample       == {"10.0.0.1"}

----------------------------------------------------------------------------
(* State *)

VARIABLES
    db,             \* tunnels table: row id -> row (soft-deleted rows stay)
    activeTunnels,  \* TunnelService.activeTunnels: tunnel id -> process
    procs,          \* every TunnelProcess ever spawned, by creation order
    req,            \* HTTP requests in flight: position and locals
    ret,            \* the response of the request that returned last
    issued,         \* number of requests issued so far
    wsClients,      \* every WebSocketClient: connection, Send channel, hub entry
    pub,            \* the goroutine that calls the Broadcast functions
    now,            \* time.Now(), in seconds since the service was made
    usersTable,     \* users table: row id -> row
    userSessions,   \* user_sessions table, by creation order
    redis,          \* the Redis keys of AuthService: key -> value
    call,           \* AuthService calls in flight: position and locals
    hist,           \* the AuthService calls that returned, in return order
    ncalls,         \* number of AuthService calls made so far
    mon,            \* MonitoringService: clients map, its locks, its callers
    limiter         \* RateLimitMiddleware: the requests inside the middleware

vars == <<db, activeTunnels, procs, req, ret, issued, wsClients, pub, now,
          usersTable, userSessions, redis, call, hist, ncalls, mon, limiter>>

\* the state of the AuthService, its tables and its Redis keys
authVars == <<usersTable, userSessions, redis, call, hist, ncalls>>

\* the state of the monitoring service and of the middleware
edgeVars == <<mon, limiter>>

\* the state of the WebSocketService
busVars == <<wsClients, pub, now, mon, limiter>>

\* the state of the TunnelService, its table and its requests
tunnelVars == <<db, activeTunnels, procs, req, ret, issued>>

\* gorm's soft-delete scope: a row that queries and updates can see
Visible(id) == id \in DOMAIN db /\ ~db[id].DeletedAt

\* a field the request body leaves out: a nil pointer of the request struct
Absent == -1

\* GetOptimalMuxConfig(userCount).Connections
GetOptimalMuxConfig(userCount) ==
    IF userCount <= 50 THEN 8
    ELSE IF userCount <= 200 THEN 24
    ELSE IF userCount <= 500 THEN 48
    ELSE 64

\* var tunnel models.Tunnel: the zero value of a handler's local record
NoTunnel == [Name |-> None, UserID |-> None, Protocol |-> None, Status |-> None,
             ServerPort |-> 0, TargetPort |-> 0,
             BytesIn |-> 0, BytesOut |-> 0, ConnectionCount |-> 0,
             MuxConnections |-> 0, DeletedAt |-> FALSE]

IdleReq == [pc |-> "idle", op |-> None, caller |-> None, id |-> 0,
            name |-> None, proto |-> None, sport |-> 0, tport |-> 0,
            mux |-> 0, tunnel |-> NoTunnel]

\* a request returns: its slot is free again, its response is the last one
Return(r, result) ==
    /\ req' = [req EXCEPT ![r] = IdleReq]
    /\ ret' = result

Goto(r, label) ==
    /\ req' = [req EXCEPT ![r].pc = label]
    /\ UNCHANGED ret

\* a request enters its handler
Issue == issued < MaxOps /\ issued' = issued + 1

InFlight(op) == Cardinality({q \in Reqs : req[q].pc # "idle" /\ req[q].op = op})

NoMessage == [Type |-> None, Data |-> None, n |-> 0, to |-> None]

\* a connection that was not opened yet
NoClient == [UserID |-> None, Conn |-> "none", inHub |-> FALSE,
             Send |-> <<>>, closes |-> 0, Written |-> <<>>,
             ReadDeadline |-> 0, LastSeen |-> 0, nextPing |-> 0, unacked |-> 0]

IdlePub == [pc |-> "idle", msg |-> NoMessage, todo |-> {}, at |-> None,
            log |-> <<>>]

\* NewMonitoringService: an empty clients map, both mutexes free
NoMonitoring == [clients |-> {}, wlock |-> <<>>, readers |-> {},
                 statsMux |-> None,
                 upd |-> [u \in Updaters |-> [pc |-> "idle", todo |-> {}]]]

\* no request is inside the rate limit middleware
IdleLimiter == [pc |-> [q \in LimitReqs |-> "idle"],
                ip |-> [q \in LimitReqs |-> None],
                current |-> [q \in LimitReqs |-> 0], n |-> 0]

\* NewWebSocketService: no client, nobody broadcasting; the monitoring
\* service and the middleware as constructed
BusInit ==
    /\ wsClients = [c \in ClientIds |-> NoClient]
    /\ pub = IdlePub
    /\ now = 0
    /\ mon = NoMonitoring
    /\ limiter = IdleLimiter

\* var user models.User: the zero value of a local record
NoUser == [Username |-> None, Email |-> None, Password |-> <<None, None>>,
           Status |-> None, FailedLoginAttempts |-> 0, LockedUntil |-> 0,
           DeletedAt |-> FALSE]

\* the empty token string
NoToken == <<None, 0, 0>>

\* a call slot of the AuthService that is free
IdleCall == [pc |-> "idle", op |-> None, n |-> 0, uid |-> 0, user |-> NoUser,
             username |-> None, email |-> None, password |-> None,
             newPassword |-> None, token |-> NoToken,
             refresh |-> NoToken, found |-> {},
             seen |-> 0, out |-> None]

\* NewAuthService over empty tables and an empty Redis
NoAccounts ==
    /\ usersTable = <<>>
    /\ userSessions = <<>>
    /\ redis = <<>>
    /\ call = [k \in Calls |-> IdleCall]
    /\ hist = <<>>
    /\ ncalls = 0

Init ==
    /\ db = <<>>
    /\ activeTunnels = <<>>
    /\ procs = <<>>
    /\ req = [r \in Reqs |-> IdleReq]
    /\ ret = None
    /\ issued = 0
    /\ BusInit
    /\ NoAccounts

----------------------------------------------------------------------------
(* TunnelService helpers *)

GetUserTunnelCount(u) ==
    Cardinality({i \in DOMAIN db : Visible(i) /\ db[i].UserID = u})

validateTunnelConfig(tunnel) ==
    IF tunnel.Name = "" THEN "tunnel name is required"
    ELSE IF tunnel.ServerIP = "" THEN "server IP is required"
    ELSE IF tunnel.ServerPort <= 0 \/ tunnel.ServerPort > 65535 THEN "invalid server port"
    ELSE IF tunnel.TargetIP = "" THEN "target IP is required"
    ELSE IF tunnel.TargetPort <= 0 \/ tunnel.TargetPort > 65535 THEN "invalid target port"
    ELSE "ok"

\* binding tags of CreateTunnelRequest: required,min=1,max=65535 on both ports
BindCreateTunnelRequest(sport, tport) ==
    /\ sport >= 1 /\ sport <= 65535
    /\ tport >= 1 /\ tport <= 65535

canCreateTunnel(u) == GetUserTunnelCount(u) < MaxTunnels[u]

\* (mutation: no unique index on the name column)
NameIndexFree_Off(name, except) == TRUE

\* the unique index on tunnels.name (it spans soft-deleted rows too)
NameIndexFree(name, except) ==
    \A i \in DOMAIN db : i = except \/ db[i].Name # name

\* the switch of createTunnelProcess: protocols it builds a command for
createTunnelProcess(proto) == proto \in {"tcp", "udp", "wss"}

\* (mutation: the command already carries an exit state, as after Wait)
NewTunnelProcess_Exited(id) ==
    [ID |-> id, Status |-> TunnelStatusConnecting, ProcessState |-> "exited",
     running |-> TRUE, closes |-> 0, monitor |-> "running",
     Metrics |-> [ConnectionCount |-> 0, BytesIn |-> 0, BytesOut |-> 0]]

\* the TunnelProcess createTunnelProcess returns: Cmd.ProcessState is nil
\* until Wait returns
NewTunnelProcess(id) ==
    [ID |-> id, Status |-> TunnelStatusConnecting, ProcessState |-> "nil",
     running |-> TRUE, closes |-> 0, monitor |-> "running",
     Metrics |-> [ConnectionCount |-> 0, BytesIn |-> 0, BytesOut |-> 0]]

\* (mutation: the lookup misses, as with a wrong map key)
Exists_WrongKey(id) == FALSE

\* _, exists := s.activeTunnels[tunnel.ID.String()]
Exists(id) == id \in DOMAIN activeTunnels

\* (mutation: the instance is not recorded)
StoreActive_Drop(id, p) == activeTunnels

\* s.activeTunnels[tunnel.ID.String()] = process
StoreActive(id, p) ==
    [i \in DOMAIN activeTunnels \cup {id} |-> IF i = id THEN p ELSE activeTunnels[i]]

\* (mutation: the entry is not removed)
DeleteActive_Keep(id) == activeTunnels

\* delete(s.activeTunnels, id)
DeleteActive(id) ==
    [i \in DOMAIN activeTunnels \ {id} |-> activeTunnels[i]]

\* (mutation: the status write is lost)
UpdateStatus_NoWrite(id, st) == db

\* UPDATE tunnels SET status = ? WHERE id = ? AND deleted_at IS NULL
UpdateStatus(id, st) ==
    IF Visible(id) THEN [db EXCEPT ![id].Status = st] ELSE db

----------------------------------------------------------------------------
(* POST /tunnels *)

\* CreateTunnel of the handler; mux is mux_config.connections of the body
BeginCreate(r, u, name, proto, sport, tport, mux) ==
    /\ UNCHANGED busVars
    /\ UNCHANGED authVars
    /\ req[r].pc = "idle"
    /\ Issue
    /\ Len(db) + InFlight("create") < MaxIds
    /\ UNCHANGED <<db, activeTunnels, procs>>
    /\ IF ~BindCreateTunnelRequest(sport, tport) THEN Return(r, "validation")
       ELSE IF ~canCreateTunnel(u) THEN Return(r, "quota-exceeded")
       ELSE /\ req' = [req EXCEPT ![r] = [IdleReq EXCEPT !.pc = "create_check",
                        !.op = "create", !.caller = u,
                        !.name = name, !.proto = proto,
                        !.sport = sport, !.tport = tport, !.mux = mux]]
            /\ UNCHANGED ret

\* TunnelService.CreateTunnel up to the name lookup
CreateCheck(r) ==
    /\ UNCHANGED busVars
    /\ UNCHANGED authVars
    /\ req[r].pc = "create_check"
    /\ UNCHANGED <<db, activeTunnels, procs, issued>>
    /\ LET tunnel == [Name |-> req[r].name, ServerIP |-> "10.0.0.1",
                      ServerPort |-> req[r].sport, TargetIP |-> "10.0.0.1",
                      TargetPort |-> req[r].tport] IN
       IF validateTunnelConfig(tunnel) # "ok" THEN Return(r, "validation")
       ELSE IF \E i \in DOMAIN db : Visible(i) /\ db[i].Name = req[r].name
                                    /\ db[i].UserID = req[r].caller
       THEN Return(r, "name-conflict")
       ELSE Goto(r, "create_insert")

NewRow(r) ==
    [Name |-> req[r].name, UserID |-> req[r].caller, Protocol |-> req[r].proto,
     Status |-> TunnelStatusInactive,
     ServerPort |-> req[r].sport, TargetPort |-> req[r].tport,
     BytesIn |-> 0, BytesOut |-> 0, ConnectionCount |-> 0,
     MuxConnections |-> IF req[r].mux = Absent
                        THEN GetOptimalMuxConfig(100) ELSE req[r].mux,
     DeletedAt |-> FALSE]

\* s.db.Create(tunnel)
CreateInsert(r) ==
    /\ UNCHANGED busVars
    /\ UNCHANGED authVars
    /\ req[r].pc = "create_insert"
    /\ UNCHANGED <<activeTunnels, procs, issued>>
    /\ IF ~NameIndexFree(req[r].name, 0)
       THEN /\ UNCHANGED db
            /\ Return(r, "create-failed")
       ELSE /\ db' = Append(db, NewRow(r))
            /\ Return(r, "ok")

----------------------------------------------------------------------------
(* The handlers' common prefix: GetTunnelByID, then the ownership check *)

HandlerPrefix(r, u, id, op, next, name, sport, tport) ==
    IF ~Visible(id) THEN Return(r, "not-found")
    ELSE IF db[id].UserID # u /\ ~CanPerformAction(u, "manage_tunnels")
    THEN Return(r, "forbidden")
    ELSE /\ req' = [req EXCEPT ![r] = [IdleReq EXCEPT !.pc = next, !.op = op,
                                                     !.id = id, !.name = name,
                                                     !.sport = sport,
                                                     !.tport = tport]]
         /\ UNCHANGED ret

----------------------------------------------------------------------------
(* POST /tunnels/{id}/start *)

BeginStart(r, u, id) ==
    /\ UNCHANGED busVars
    /\ UNCHANGED authVars
    /\ req[r].pc = "idle"
    /\ Issue
    /\ UNCHANGED <<db, activeTunnels, procs>>
    /\ HandlerPrefix(r, u, id, "start", "start_read", None, 0, 0)

\* TunnelService.StartTunnel: GetTunnelByID, before tunnelsMux is taken
StartRead(r) ==
    /\ UNCHANGED busVars
    /\ UNCHANGED authVars
    /\ req[r].pc = "start_read"
    /\ UNCHANGED <<db, activeTunnels, procs, issued>>
    /\ IF ~Visible(req[r].id)
       THEN Return(r, "not-found")
       ELSE /\ req' = [req EXCEPT ![r].pc = "start_cs",
                                  ![r].proto = db[req[r].id].Protocol]
            /\ UNCHANGED ret

\* TunnelService.StartTunnel: the critical section of tunnelsMux
StartTunnel(r) ==
    /\ UNCHANGED busVars
    /\ UNCHANGED authVars
    /\ req[r].pc = "start_cs"
    /\ UNCHANGED issued
    /\ LET id == req[r].id IN
       IF Exists(id)
       THEN /\ UNCHANGED <<db, activeTunnels, procs>>
            /\ Return(r, "already-running")
       ELSE IF ~createTunnelProcess(req[r].proto)
       THEN /\ UNCHANGED <<db, activeTunnels, procs>>
            /\ Return(r, "unsupported-protocol")
       ELSE \E started \in BOOLEAN :      \* process.Process.Start()
            IF ~started
            THEN /\ UNCHANGED <<db, activeTunnels, procs>>
                 /\ Return(r, "start-failed")
            ELSE /\ Len(procs) < MaxProcs
                 /\ db' = UpdateStatus(id, TunnelStatusActive)
                 /\ procs' = Append(procs, NewTunnelProcess(id))
                 /\ activeTunnels' = StoreActive(id, Len(procs) + 1)
                 /\ Return(r, "ok")

----------------------------------------------------------------------------
(* POST /tunnels/{id}/stop, and the StopTunnel calls of update and delete *)

BeginStop(r, u, id) ==
    /\ UNCHANGED busVars
    /\ UNCHANGED authVars
    /\ req[r].pc = "idle"
    /\ Issue
    /\ UNCHANGED <<db, activeTunnels, procs>>
    /\ HandlerPrefix(r, u, id, "stop", "stop_read", None, 0, 0)

\* where a request goes on when its StopTunnel call has returned
AfterStop(r, result) ==
    CASE req[r].op = "update" -> Goto(r, "update_write")
      [] req[r].op = "delete" -> Goto(r, "delete_write")
      [] OTHER                -> Return(r, result)

\* TunnelService.StopTunnel: GetTunnelByID, before tunnelsMux is taken
StopRead(r) ==
    /\ UNCHANGED busVars
    /\ UNCHANGED authVars
    /\ req[r].pc = "stop_read"
    /\ UNCHANGED <<db, activeTunnels, procs, issued>>
    /\ IF ~Visible(req[r].id)
       THEN AfterStop(r, "not-found")
       ELSE Goto(r, "stop_cs")

\* TunnelService.StopTunnel: the critical section of tunnelsMux
StopTunnel(r) ==
    /\ UNCHANGED busVars
    /\ UNCHANGED authVars
    /\ req[r].pc = "stop_cs"
    /\ UNCHANGED issued
    /\ LET id == req[r].id IN
       IF ~Exists(id)
       THEN /\ UNCHANGED <<db, activeTunnels, procs>>
            /\ AfterStop(r, "not-running")
       ELSE LET p == activeTunnels[id] IN
            /\ procs' = [procs EXCEPT ![p].running = FALSE,      \* Kill()
                                      ![p].closes = @ + 1]        \* close(StopChannel)
            /\ db' = UpdateStatus(id, TunnelStatusInactive)
            /\ activeTunnels' = DeleteActive(id)
            /\ AfterStop(r, "ok")

----------------------------------------------------------------------------
(* PUT /tunnels/{id} *)

\* (mutation: the port tags of the update request are not checked)
BindUpdateTunnelRequest_Off(sport, tport) == TRUE

\* binding tags of UpdateTunnelRequest: omitempty,min=1,max=65535 on both
\* ports, checked for a field that is there
BindUpdateTunnelRequest(sport, tport) ==
    /\ sport = Absent \/ (sport >= 1 /\ sport <= 65535)
    /\ tport = Absent \/ (tport >= 1 /\ tport <= 65535)

BeginUpdate(r, u, id, name, sport, tport) ==
    /\ UNCHANGED busVars
    /\ UNCHANGED authVars
    /\ req[r].pc = "idle"
    /\ Issue
    /\ UNCHANGED <<db, activeTunnels, procs>>
    /\ IF ~BindUpdateTunnelRequest(sport, tport) THEN Return(r, "validation")
       ELSE HandlerPrefix(r, u, id, "update", "update_read", name, sport, tport)

\* TunnelService.UpdateTunnel: db.First into the local tunnel, and the test
\* of tunnel.Status
UpdateRead(r) ==
    /\ UNCHANGED busVars
    /\ UNCHANGED authVars
    /\ req[r].pc = "update_read"
    /\ UNCHANGED <<db, activeTunnels, procs, issued>>
    /\ IF ~Visible(req[r].id)
       THEN Return(r, "not-found")
       ELSE /\ req' = [req EXCEPT
                        ![r].tunnel = db[req[r].id],
                        ![r].pc = IF db[req[r].id].Status = TunnelStatusActive
                                  THEN "stop_read" ELSE "update_write"]
            /\ UNCHANGED ret

\* (mutation: the whole struct is saved, its counters zeroed)
Updates_ZeroCounters(row, name, sport, tport) ==
    [row EXCEPT !.Name = name, !.BytesIn = 0, !.BytesOut = 0,
                !.ConnectionCount = 0]

\* Updates(updates): the columns of the map (the name, the ports) are set, in the
\* row and in the struct the call was made on
Updates(row, name, sport, tport) ==
    [row EXCEPT !.Name = name,
                !.ServerPort = IF sport = Absent THEN @ ELSE sport,
                !.TargetPort = IF tport = Absent THEN @ ELSE tport]

\* the record UpdateTunnel returns: its local tunnel after Updates
UpdatedTunnel(r) ==
    Updates(req[r].tunnel, req[r].name, req[r].sport, req[r].tport)

\* s.db.Model(&tunnel).Updates(updates)
UpdateWrite(r) ==
    /\ UNCHANGED busVars
    /\ UNCHANGED authVars
    /\ req[r].pc = "update_write"
    /\ UNCHANGED <<activeTunnels, procs, issued>>
    /\ LET id == req[r].id IN
       IF ~Visible(id)
       THEN /\ UNCHANGED db
            /\ Return(r, "ok")                  \* no row matched, no error
       ELSE IF ~NameIndexFree(req[r].name, id)
       THEN /\ UNCHANGED db
            /\ Return(r, "update-failed")
       ELSE /\ db' = [db EXCEPT ![id] = Updates(db[id], req[r].name,
                                                req[r].sport, req[r].tport)]
            /\ Return(r, "ok")

----------------------------------------------------------------------------
(* DELETE /tunnels/{id} *)

BeginDelete(r, u, id) ==
    /\ UNCHANGED busVars
    /\ UNCHANGED authVars
    /\ req[r].pc = "idle"
    /\ Issue
    /\ UNCHANGED <<db, activeTunnels, procs>>
    /\ HandlerPrefix(r, u, id, "delete", "delete_read", None, 0, 0)

\* TunnelService.DeleteTunnel: db.First and the test of tunnel.Status
DeleteRead(r) ==
    /\ UNCHANGED busVars
    /\ UNCHANGED authVars
    /\ req[r].pc = "delete_read"
    /\ UNCHANGED <<db, activeTunnels, procs, issued>>
    /\ IF ~Visible(req[r].id)
       THEN Return(r, "not-found")
       ELSE IF db[req[r].id].Status = TunnelStatusActive
       THEN Goto(r, "stop_read")
       ELSE Goto(r, "delete_write")

\* s.db.Delete(&tunnel): a soft delete
DeleteWrite(r) ==
    /\ UNCHANGED busVars
    /\ UNCHANGED authVars
    /\ req[r].pc = "delete_write"
    /\ UNCHANGED <<activeTunnels, procs, issued>>
    /\ db' = IF Visible(req[r].id)
             THEN [db EXCEPT ![req[r].id].DeletedAt = TRUE] ELSE db
    /\ Return(r, "ok")

----------------------------------------------------------------------------
(* The monitor goroutine of one TunnelProcess, and its child process *)

\* updateTunnelMetrics: the row gets the counters m of the instance
updateTunnelMetrics(p, m) ==
    IF Visible(procs[p].ID)
    THEN [db EXCEPT ![procs[p].ID].ConnectionCount = m.ConnectionCount,
                    ![procs[p].ID].BytesIn = m.BytesIn,
                    ![procs[p].ID].BytesOut = m.BytesOut]
    ELSE db

\* handleTunnelExit, on the table t left by updateTunnelMetrics: status
\* error, registry entry of process.ID deleted
handleTunnelExit(p, t) ==
    /\ db' = IF Visible(procs[p].ID)
             THEN [t EXCEPT ![procs[p].ID].Status = TunnelStatusError] ELSE t
    /\ activeTunnels' = DeleteActive(procs[p].ID)

\* the simulated increments: 1000 + nanos % 5000 and 800 + nanos % 3000
BytesInSample  == {1000}
BytesOutSample == {800}

\* the two ends of the range of 1000 + nanos % 5000
BytesInRange == {1000, 5999}

\* monitorTunnel, case <-ticker.C, when the clock yields the increments bi, bo
MonitorTickBy(p, bi, bo) ==
    /\ UNCHANGED busVars
    /\ UNCHANGED authVars
    /\ p \in DOMAIN procs
    /\ procs[p].monitor = "running"
    /\ procs[p].Metrics.ConnectionCount < MaxTicks
    /\ UNCHANGED <<req, ret, issued>>
    /\ LET m == [ConnectionCount |-> procs[p].Metrics.ConnectionCount + 1,
                 BytesIn  |-> procs[p].Metrics.BytesIn + bi,
                 BytesOut |-> procs[p].Metrics.BytesOut + bo] IN
       IF procs[p].ProcessState # "nil"      \* ... && ProcessState.Exited()
       THEN /\ procs' = [procs EXCEPT ![p].Metrics = m, ![p].monitor = "done"]
            /\ handleTunnelExit(p, updateTunnelMetrics(p, m))
       ELSE /\ procs' = [procs EXCEPT ![p].Metrics = m]
            /\ db' = updateTunnelMetrics(p, m)
            /\ UNCHANGED activeTunnels

\* monitorTunnel, case <-ticker.C
MonitorTick(p) ==
    /\ p \in Pids
    /\ \E bi \in BytesInSample, bo \in BytesOutSample : MonitorTickBy(p, bi, bo)

\* monitorTunnel, case <-process.StopChannel
MonitorStopped(p) ==
    /\ UNCHANGED busVars
    /\ UNCHANGED authVars
    /\ p \in DOMAIN procs
    /\ procs[p].monitor = "running"
    /\ procs[p].closes > 0
    /\ procs' = [procs EXCEPT ![p].monitor = "done"]
    /\ UNCHANGED <<db, activeTunnels, req, ret, issued>>

\* the stunnel-core child exits on its own (bind failure, crash); nothing in
\* the service calls Wait, so Cmd.ProcessState stays nil
ProcessExit(p) ==
    /\ UNCHANGED busVars
    /\ UNCHANGED authVars
    /\ p \in DOMAIN procs
    /\ procs[p].running
    /\ procs' = [procs EXCEPT ![p].running = FALSE]
    /\ UNCHANGED <<db, activeTunnels, req, ret, issued>>

----------------------------------------------------------------------------

Next ==
    \/ \E r \in Reqs, u \in Users, name \in Names, proto \in ProtocolSample,
          sport \in PortSample, tport \in PortSample :
            BeginCreate(r, u, name, proto, sport, tport, Absent)
    \/ \E r \in Reqs : CreateCheck(r)
    \/ \E r \in Reqs : CreateInsert(r)
    \/ \E r \in Reqs, u \in Users, id \in Ids : BeginStart(r, u, id)
    \/ \E r \in Reqs : StartRead(r)
    \/ \E r \in Reqs : StartTunnel(r)
    \/ \E r \in Reqs, u \in Users, id \in Ids : BeginStop(r, u, id)
    \/ \E r \in Reqs : StopRead(r)
    \/ \E r \in Reqs : StopTunnel(r)
    \/ \E r \in Reqs, u \in Users, id \in Ids, name \in Names : BeginUpdate(r, u, id, name, Absent, Absent)
    \/ \E r \in Reqs : UpdateRead(r)
    \/ \E r \in Reqs : UpdateWrite(r)
    \/ \E r \in Reqs, u \in Users, id \in Ids : BeginDelete(r, u, id)
    \/ \E r \in Reqs : DeleteRead(r)
    \/ \E r \in Reqs : DeleteWrite(r)
    \/ \E p \in Pids : MonitorTick(p)
    \/ \E p \in Pids : MonitorStopped(p)
    \/ \E p \in Pids : ProcessExit(p)

Spec == Init /\ [][Next]_vars

\* The ticker keeps firing and a goroutine blocked on a ready select case
\* runs; a request that entered a handler runs to its response.
Fairness ==
    /\ \A p \in Pids : WF_vars(MonitorTick(p)) /\ WF_vars(MonitorStopped(p))
    /\ \A r \in Reqs :
         WF_vars(CreateCheck(r) \/ CreateInsert(r) \/ StartRead(r) \/ StartTunnel(r)
                 \/ StopRead(r) \/ StopTunnel(r) \/ UpdateRead(r) \/ UpdateWrite(r)
                 \/ DeleteRead(r) \/ DeleteWrite(r))

FairSpec == Spec /\ Fairness


----------------------------------------------------------------------------
(* One start and one stop issued on the same stored, stopped tunnel: both  *)
(* handlers are past their ownership check, nothing else is issued.        *)

PairInit ==
    /\ \E u \in Users, name \in Names :
         db = << [Name |-> name, UserID |-> u, Protocol |-> "tcp",
                  Status |-> TunnelStatusInactive,
                  ServerPort |-> 8080, TargetPort |-> 8080,
                  BytesIn |-> 0, BytesOut |-> 0, ConnectionCount |-> 0,
                  MuxConnections |-> GetOptimalMuxConfig(100),
                  DeletedAt |-> FALSE] >>
    /\ activeTunnels = <<>>
    /\ procs = <<>>
    /\ req = [r \in Reqs |->
                IF r = "r1"
                THEN [IdleReq EXCEPT !.pc = "start_read", !.op = "start", !.id = 1]
                ELSE [IdleReq EXCEPT !.pc = "stop_read", !.op = "stop", !.id = 1]]
    /\ ret = "ok"
    /\ issued = 3
    /\ BusInit
    /\ NoAccounts

PairNext ==
    \/ \E r \in Reqs : StartRead(r)
    \/ \E r \in Reqs : StartTunnel(r)
    \/ \E r \in Reqs : StopRead(r)
    \/ \E r \in Reqs : StopTunnel(r)
    \/ \E p \in Pids : MonitorTick(p)
    \/ \E p \in Pids : MonitorStopped(p)
    \/ \E p \in Pids : ProcessExit(p)

SpecPair == PairInit /\ [][PairNext]_vars

----------------------------------------------------------------------------
(* One stored, stopped tunnel of alice or bob; start, stop, update and     *)
(* delete are called on it by accounts of every role: its owner, the other *)
(* of alice (user) and bob (moderator), carol (guest) and dave (admin).    *)

AuthInit ==
    /\ \E u \in Users, name \in Names :
         db = << [Name |-> name, UserID |-> u, Protocol |-> "tcp",
                  Status |-> TunnelStatusInactive,
                  ServerPort |-> 8080, TargetPort |-> 8080,
                  BytesIn |-> 0, BytesOut |-> 0, ConnectionCount |-> 0,
                  MuxConnections |-> GetOptimalMuxConfig(100),
                  DeletedAt |-> FALSE] >>
    /\ activeTunnels = <<>>
    /\ procs = <<>>
    /\ req = [r \in Reqs |-> IdleReq]
    /\ ret = "ok"
    /\ issued = 2
    /\ BusInit
    /\ NoAccounts

AuthNext ==
    \/ \E r \in Reqs, u \in Callers, id \in Ids : BeginStart(r, u, id)
    \/ \E r \in Reqs : StartRead(r)
    \/ \E r \in Reqs : StartTunnel(r)
    \/ \E r \in Reqs, u \in Callers, id \in Ids : BeginStop(r, u, id)
    \/ \E r \in Reqs : StopRead(r)
    \/ \E r \in Reqs : StopTunnel(r)
    \/ \E r \in Reqs, u \in Callers, id \in Ids, name \in Names :
            BeginUpdate(r, u, id, name, Absent, Absent)
    \/ \E r \in Reqs : UpdateRead(r)
    \/ \E r \in Reqs : UpdateWrite(r)
    \/ \E r \in Reqs, u \in Callers, id \in Ids : BeginDelete(r, u, id)
    \/ \E r \in Reqs : DeleteRead(r)
    \/ \E r \in Reqs : DeleteWrite(r)
    \/ \E p \in Pids : MonitorTick(p)
    \/ \E p \in Pids : MonitorStopped(p)
    \/ \E p \in Pids : ProcessExit(p)

SpecAuth == AuthInit /\ [][AuthNext]_vars

----------------------------------------------------------------------------
(* One stored, stopped tunnel that is started, stopped and started again   *)
(* while the monitors tick with either end of the byte increment range.    *)

CountersInit ==
    /\ \E u \in Users, name \in Names :
         db = << [Name |-> name, UserID |-> u, Protocol |-> "tcp",
                  Status |-> TunnelStatusInactive,
                  ServerPort |-> 8080, TargetPort |-> 8080,
                  BytesIn |-> 0, BytesOut |-> 0, ConnectionCount |-> 0,
                  MuxConnections |-> GetOptimalMuxConfig(100),
                  DeletedAt |-> FALSE] >>
    /\ activeTunnels = <<>>
    /\ procs = <<>>
    /\ req = [r \in Reqs |-> IdleReq]
    /\ ret = "ok"
    /\ issued = 1
    /\ BusInit
    /\ NoAccounts

CountersNext ==
    \/ \E r \in Reqs, u \in Users, id \in Ids : BeginStart(r, u, id)
    \/ \E r \in Reqs : StartRead(r)
    \/ \E r \in Reqs : StartTunnel(r)
    \/ \E r \in Reqs, u \in Users, id \in Ids : BeginStop(r, u, id)
    \/ \E r \in Reqs : StopRead(r)
    \/ \E r \in Reqs : StopTunnel(r)
    \/ \E p \in Pids, bi \in BytesInRange, bo \in BytesOutSample :
          MonitorTickBy(p, bi, bo)
    \/ \E p \in Pids : MonitorStopped(p)
    \/ \E p \in Pids : ProcessExit(p)

SpecCounters == CountersInit /\ [][CountersNext]_vars

----------------------------------------------------------------------------
(* WebSocketService: the hub ws.clients behind clientsMux, one Send        *)
(* channel per client, and the goroutines writePump and readPump.          *)
(* registerClient, unregisterClient and the whole of a Broadcast loop run  *)
(* with clientsMux held; only the loop (read lock) spans several steps, so *)
(* a writer section can run exactly when no Broadcast is under way.        *)

\* (mutation: RLock() does not wait for the holder of the write lock)
WriterFree_Off == TRUE

\* clientsMux is free for RLock(): no goroutine is inside registerClient,
\* the one writer section that is modelled in two steps
WriterFree == \A c \in ClientIds : wsClients[c].Conn # "registering"

\* clientsMux is free for Lock(): no goroutine is inside a Broadcast or
\* inside registerClient
MuxFree == pub.pc = "idle" /\ WriterFree

welcomeMsg(c) == [Type |-> "welcome",
                  Data |-> <<c, "Connected to UTunnel Pro">>,
                  n |-> 0, to |-> None]

\* the read deadline readPump sets, at its start and in its pong handler
pongWait == 60

\* the period of writePump's ping ticker
pingPeriod == 54

\* the client record of HandleWebSocket at time t, once registerClient put
\* it into the hub (welcome message into the empty channel) and its pumps
\* started: readPump set the read deadline, writePump its ticker
NewClient(c, u, t) ==
    [NoClient EXCEPT !.UserID = u, !.Conn = "open", !.inHub = TRUE,
                     !.Send = <<welcomeMsg(c)>>, !.LastSeen = t,
                     !.ReadDeadline = t + pongWait,
                     !.nextPing = t + pingPeriod]

\* HandleWebSocket for a validated token of user u: the client record, then
\* registerClient
HandleWebSocket(c, u) ==
    /\ wsClients[c].Conn = "none"
    /\ MuxFree
    /\ wsClients' = [wsClients EXCEPT ![c] = NewClient(c, u, now)]
    /\ UNCHANGED <<pub, now, tunnelVars, authVars, edgeVars>>

\* the clients a loop over ws.clients sends to: those of userID, or all
Targets(userID) ==
    {c \in ClientIds : /\ wsClients[c].inHub
                       /\ userID \in {"all", wsClients[c].UserID}}

\* RLock and the start of the loop; with nobody to send to, RUnlock at once
Broadcast(message, userID) ==
    /\ pub.pc = "idle"
    /\ WriterFree
    /\ Len(pub.log) < MaxMsgs
    /\ LET m == [message EXCEPT !.n = Len(pub.log) + 1, !.to = userID] IN
       pub' = [pc   |-> IF Targets(userID) = {} THEN "idle" ELSE "loop",
               msg  |-> IF Targets(userID) = {} THEN NoMessage ELSE m,
               todo |-> Targets(userID),
               at   |-> None,
               log  |-> Append(pub.log, m)]
    /\ UNCHANGED <<wsClients, now, tunnelVars, authVars, edgeVars>>

\* update types the callers of BroadcastTunnelUpdate are drawn from
UpdateSample == {TunnelStatusActive}

\* BroadcastTunnelUpdate(tunnel, updateType) for a tunnel of owner u
BroadcastTunnelUpdate(u, st) ==
    /\ u \in Users
    /\ Broadcast([NoMessage EXCEPT !.Type = "tunnel_update", !.Data = st], u)

\* BroadcastMetrics: to every client
BroadcastMetrics ==
    /\ pub.pc = "idle"
    /\ Broadcast([NoMessage EXCEPT !.Type = "metrics_update",
                                   !.Data = "metrics"], "all")

\* sendMessage to the next client of the loop: the non-blocking send, or the
\* default case, unregisterClient, whose Lock() waits for the read lock this
\* very goroutine holds
sendMessage(c) ==
    /\ pub.pc = "loop"
    /\ c \in pub.todo
    /\ IF Len(wsClients[c].Send) < SendCap
       THEN /\ wsClients' = [wsClients EXCEPT ![c].Send = Append(@, pub.msg)]
            /\ pub' = IF pub.todo = {c}
                      THEN [pub EXCEPT !.pc = "idle", !.msg = NoMessage,
                                       !.todo = {}]          \* RUnlock
                      ELSE [pub EXCEPT !.todo = @ \ {c}]
       ELSE /\ pub' = [pub EXCEPT !.pc = "lock_wait", !.at = c]
            /\ UNCHANGED wsClients
    /\ UNCHANGED <<now, tunnelVars, authVars, edgeVars>>

\* (mutation: the newest message is taken first)
Receive_Last(q) == [message |-> q[Len(q)], rest |-> SubSeq(q, 1, Len(q) - 1)]

\* <-c.Send: the oldest message of the channel
Receive(q) == [message |-> Head(q), rest |-> Tail(q)]

\* writePump, case message, ok := <-c.Send.  Each receive of the loop
\* (the first and those of the batch) is one step; a closed and drained
\* channel ends the pump with a close frame.
writePump(c) ==
    /\ wsClients[c].Conn = "open"
    /\ IF wsClients[c].Send # <<>>
       THEN wsClients' = [wsClients EXCEPT
                ![c].Written = Append(@, Receive(wsClients[c].Send).message),
                ![c].Send = Receive(wsClients[c].Send).rest]
       ELSE /\ wsClients[c].closes > 0
            /\ wsClients' = [wsClients EXCEPT ![c].Conn = "closed"]
    /\ UNCHANGED <<pub, now, tunnelVars, authVars, edgeVars>>

\* readPump when ReadMessage fails (peer gone, read deadline): the deferred
\* unregisterClient, then Conn.Close
readPump(c) ==
    /\ wsClients[c].Conn = "open"
    /\ MuxFree
    /\ wsClients' = [wsClients EXCEPT
            ![c].inHub = FALSE,
            ![c].closes = IF wsClients[c].inHub THEN @ + 1 ELSE @,
            ![c].Conn = "closed"]
    /\ UNCHANGED <<pub, now, tunnelVars, authVars, edgeVars>>

BusNext ==
    \/ \E c \in ClientIds, u \in Users : HandleWebSocket(c, u)
    \/ \E u \in Users, st \in UpdateSample : BroadcastTunnelUpdate(u, st)
    \/ BroadcastMetrics
    \/ \E c \in ClientIds : sendMessage(c)
    \/ \E c \in ClientIds : writePump(c)
    \/ \E c \in ClientIds : readPump(c)

SpecBus == Init /\ [][BusNext]_vars

----------------------------------------------------------------------------
(* One stored, stopped tunnel whose owner has a WebSocket client in the    *)
(* hub (welcome message queued); the tunnel is started and stopped while   *)
(* the client's pumps run.  Nothing in the repository calls a Broadcast    *)
(* function, so none is called here.                                       *)

PushInit ==
    /\ \E u \in Users, name \in Names :
         /\ db = << [Name |-> name, UserID |-> u, Protocol |-> "tcp",
                     Status |-> TunnelStatusInactive,
                     ServerPort |-> 8080, TargetPort |-> 8080,
                     BytesIn |-> 0, BytesOut |-> 0, ConnectionCount |-> 0,
                     MuxConnections |-> GetOptimalMuxConfig(100),
                     DeletedAt |-> FALSE] >>
         /\ wsClients = [c \in ClientIds |->
                IF c = "c1" THEN NewClient(c, u, 0) ELSE NoClient]
    /\ pub = IdlePub
    /\ now = 0
    /\ mon = NoMonitoring
    /\ limiter = IdleLimiter
    /\ NoAccounts
    /\ activeTunnels = <<>>
    /\ procs = <<>>
    /\ req = [r \in Reqs |-> IdleReq]
    /\ ret = "ok"
    /\ issued = 1

PushNext ==
    \/ \E r \in Reqs, u \in Users, id \in Ids : BeginStart(r, u, id)
    \/ \E r \in Reqs : StartRead(r)
    \/ \E r \in Reqs : StartTunnel(r)
    \/ \E r \in Reqs, u \in Users, id \in Ids : BeginStop(r, u, id)
    \/ \E r \in Reqs : StopRead(r)
    \/ \E r \in Reqs : StopTunnel(r)
    \/ \E p \in Pids : MonitorTick(p)
    \/ \E p \in Pids : MonitorStopped(p)
    \/ \E p \in Pids : ProcessExit(p)
    \/ \E c \in ClientIds : writePump(c)
    \/ \E c \in ClientIds : readPump(c)

SpecPush == PushInit /\ [][PushNext]_vars

----------------------------------------------------------------------------
(* Properties *)

LiveInstances(id) ==
    {p \in DOMAIN procs : procs[p].ID = id /\ procs[p].closes = 0}

\* C1: every stored (not deleted) tunnel record with status active has
\* exactly one registry entry under its id, held by an instance of that
\* tunnel, and every stored record with status inactive or error has none.
C1_ActiveIffRegistered ==
    \A id \in DOMAIN db :
        Visible(id) =>
            /\ db[id].Status = TunnelStatusActive =>
                   /\ id \in DOMAIN activeTunnels
                   /\ procs[activeTunnels[id]].ID = id
                   /\ \A j \in DOMAIN activeTunnels :
                          activeTunnels[j] = activeTunnels[id] => j = id
            /\ db[id].Status \in {TunnelStatusInactive, TunnelStatusError} =>
                   id \notin DOMAIN activeTunnels

\* a tunnel that was started, stopped and is running again
C1_Witness ==
    \E id \in DOMAIN db :
        /\ Visible(id) /\ db[id].Status = TunnelStatusActive
        /\ id \in DOMAIN activeTunnels
        /\ \E p \in DOMAIN procs : procs[p].ID = id /\ procs[p].closes = 1


\* the step is taken by request r
StepOf(r) == req'[r] # req[r]

AllReturned == \A r \in Reqs : req[r].pc = "idle"

\* C2 (as stated): after one start and one stop on the same tunnel, in any
\* interleaving, the status is inactive or error and the registry has as
\* many entries as before the pair (none).
C2_PairEndsStopped ==
    AllReturned =>
        /\ db[1].Status \in {TunnelStatusInactive, TunnelStatusError}
        /\ Cardinality(DOMAIN activeTunnels) = 0

\* C2 (amended): after one start and one stop on the same stopped tunnel,
\* the tunnel is active with exactly one registry entry when the start
\* spawned an instance that the stop did not signal (the stop took the lock
\* first and was rejected); in every other interleaving it is inactive and
\* the registry has as many entries as before the pair.
C2_PairOutcome ==
    AllReturned =>
        IF procs # <<>> /\ procs[1].closes = 0
        THEN /\ db[1].Status = TunnelStatusActive
             /\ DOMAIN activeTunnels = {1}
             /\ activeTunnels[1] = 1
        ELSE /\ db[1].Status = TunnelStatusInactive
             /\ Cardinality(DOMAIN activeTunnels) = 0

\* both requests returned, the stop after the start
C2_Witness ==
    /\ AllReturned
    /\ procs # <<>> /\ procs[1].closes = 1

AllowedTransitions ==
    { <<TunnelStatusInactive, TunnelStatusConnecting>>,
      <<TunnelStatusConnecting, TunnelStatusActive>>,
      <<TunnelStatusConnecting, TunnelStatusError>>,
      <<TunnelStatusActive, TunnelStatusInactive>>,
      <<TunnelStatusActive, TunnelStatusError>>,
      <<TunnelStatusError, TunnelStatusConnecting>> }

\* C3: the persisted status of a tunnel changes only along inactive ->
\* connecting, connecting -> active, connecting -> error, active ->
\* inactive, active -> error and error -> connecting.
C3_OnlyAllowedTransitions ==
    [][\A id \in DOMAIN db :
          db'[id].Status # db[id].Status =>
              <<db[id].Status, db'[id].Status>> \in AllowedTransitions]_vars

\* C4: a start that finds a registry entry for its tunnel is rejected with
\* already-running and changes neither the registry, the instances nor the
\* table; a start that succeeds creates exactly one instance and one entry;
\* a tunnel never has more than one instance that was not stopped.
C4_StartOnlyOnce ==
    /\ [](\A id \in Ids : Cardinality(LiveInstances(id)) <= 1)
    /\ [][\A r \in Reqs :
            (req[r].pc = "start_cs" /\ StepOf(r)) =>
                IF req[r].id \in DOMAIN activeTunnels
                THEN /\ ret' = "already-running"
                     /\ UNCHANGED <<db, activeTunnels, procs>>
                ELSE ret' = "ok" =>
                     /\ Len(procs') = Len(procs) + 1
                     /\ DOMAIN activeTunnels' = DOMAIN activeTunnels \cup {req[r].id}
                     /\ activeTunnels'[req[r].id] = Len(procs')]_vars

\* a start was rejected while the instance of an earlier start runs
C4_Witness ==
    /\ ret = "already-running"
    /\ \E id \in DOMAIN activeTunnels : procs[activeTunnels[id]].closes = 0

\* C5: a stop that finds no registry entry for its tunnel is rejected with
\* not-running and changes neither the table, the registry nor the
\* instances; the StopChannel of an instance is closed at most once.
C5_StopOnlyOnce ==
    /\ [](\A p \in DOMAIN procs : procs[p].closes <= 1)
    /\ [][\A r \in Reqs :
            (req[r].pc = "stop_cs" /\ req[r].op = "stop" /\ StepOf(r)
                /\ req[r].id \notin DOMAIN activeTunnels) =>
                /\ ret' = "not-running"
                /\ UNCHANGED <<db, activeTunnels, procs>>]_vars

\* a stop was rejected after an earlier stop succeeded
C5_Witness ==
    /\ ret = "not-running"
    /\ \E p \in DOMAIN procs : procs[p].closes = 1

\* C6: a start that fails to bring the instance up leaves the record with
\* status error and the tunnel without a registry entry.
C6_FailedStartSetsError ==
    [][\A r \in Reqs :
          (req[r].pc = "start_cs" /\ StepOf(r) /\ Visible(req[r].id)
              /\ ret' \in {"start-failed", "unsupported-protocol"}) =>
              /\ db'[req[r].id].Status = TunnelStatusError
              /\ req[r].id \notin DOMAIN activeTunnels']_vars

\* C7: when the child process of a registered instance has exited and no
\* stop was requested, eventually the record has status error and the
\* registry entry is gone (or a stop or a delete intervenes).
C7_ExitLeadsToError ==
    \A p \in Pids :
        (p \in DOMAIN procs /\ ~procs[p].running /\ procs[p].closes = 0)
            ~> (p \in DOMAIN procs /\
                   \/ procs[p].closes > 0
                   \/ ~Visible(procs[p].ID)
                   \/ /\ db[procs[p].ID].Status = TunnelStatusError
                      /\ procs[p].ID \notin DOMAIN activeTunnels)

\* C8: the number of stored tunnels of an owner never exceeds the owner's
\* max-tunnels.
C8_QuotaNeverExceeded ==
    \A u \in Users : GetUserTunnelCount(u) <= MaxTunnels[u]

\* the owner's stored tunnels other than id
OtherTunnelCount(id) ==
    Cardinality({i \in DOMAIN db : i # id /\ Visible(i) /\ db[i].UserID = db[id].UserID})

\* C9: a start of a tunnel whose owner already has max-tunnels other stored
\* tunnels is rejected with quota-exceeded and changes neither the table,
\* the registry nor the instances.
C9_StartChecksQuota ==
    [][\A r \in Reqs :
          (req[r].pc = "start_cs" /\ StepOf(r) /\ Visible(req[r].id)
              /\ OtherTunnelCount(req[r].id) >= MaxTunnels[db[req[r].id].UserID]) =>
              /\ ret' = "quota-exceeded"
              /\ UNCHANGED <<db, activeTunnels, procs>>]_vars

\* C10: no two stored tunnel records have the same (owner, name) pair, and
\* a create whose name a stored tunnel of the same owner already has fails
\* (name conflict at the lookup, or the unique index at the insert) and
\* stores nothing.
C10_OwnerNameUnique ==
    /\ [](\A i, j \in DOMAIN db :
            (i # j /\ Visible(i) /\ Visible(j)) =>
                <<db[i].UserID, db[i].Name>> # <<db[j].UserID, db[j].Name>>)
    /\ [][\A r \in Reqs :
            (req[r].pc \in {"create_check", "create_insert"} /\ StepOf(r)
                /\ \E i \in DOMAIN db : /\ Visible(i)
                                        /\ db[i].Name = req[r].name
                                        /\ db[i].UserID = req[r].caller) =>
                /\ db' = db
                /\ req'[r].pc = "idle"
                /\ ret' = IF req[r].pc = "create_check" THEN "name-conflict"
                                                        ELSE "create-failed"]_vars

\* two creates of one owner raced on one name: one has stored its record,
\* the other is past the lookup and about to insert
C10_Witness ==
    \E r \in Reqs, i \in DOMAIN db :
        /\ req[r].pc = "create_insert"
        /\ Visible(i)
        /\ db[i].Name = req[r].name
        /\ db[i].UserID = req[r].caller

\* C11: name uniqueness is scoped per owner: a create whose name no stored
\* tunnel of the caller has, but a tunnel of a different owner has, succeeds
\* and stores the caller's record.
C11_NameScopedPerOwner ==
    [][\A r \in Reqs :
          (req[r].pc = "create_insert" /\ StepOf(r)
              /\ \E i \in DOMAIN db : /\ Visible(i)
                                      /\ db[i].Name = req[r].name
                                      /\ db[i].UserID # req[r].caller
              /\ \A j \in DOMAIN db : db[j].UserID = req[r].caller
                                          => db[j].Name # req[r].name) =>
              /\ ret' = "ok"
              /\ db' = Append(db, NewRow(r))]_vars

\* caller u enters the handler of start, stop, update or delete on tunnel id
CallsHandler(r, u, id) ==
    \/ BeginStart(r, u, id)
    \/ BeginStop(r, u, id)
    \/ BeginDelete(r, u, id)
    \/ \E name \in Names : BeginUpdate(r, u, id, name, Absent, Absent)

C13_UpdateStopsFirst ==
    [][\A r \in Reqs :
          (req[r].pc = "update_write" /\ StepOf(r) /\ Visible(req[r].id)
              /\ ret' = "ok") =>
              /\ req[r].id \notin DOMAIN activeTunnels
              /\ req[r].id \notin DOMAIN activeTunnels']_vars

\* between the read of update r and its write, nothing but the update's own
\* stop has changed the record
OnlyUpdateChanged(r) ==
    \/ db[req[r].id] = req[r].tunnel
    \/ /\ req[r].tunnel.Status = TunnelStatusActive
       /\ db[req[r].id] = [req[r].tunnel EXCEPT !.Status = TunnelStatusInactive]

\* C14 (as stated): for a tunnel in any state, running or not, an update
\* whose patch equals the current values leaves the stored record identical
\* to the record before the update, and returns that stored record.
C14_UpdateSameIsIdentity ==
    [][\A r \in Reqs :
          (req[r].pc = "update_write" /\ StepOf(r) /\ Visible(req[r].id)
              /\ req[r].name = req[r].tunnel.Name /\ OnlyUpdateChanged(r)) =>
              /\ ret' = "ok"
              /\ db'[req[r].id] = req[r].tunnel
              /\ UpdatedTunnel(r) = db'[req[r].id]]_vars

\* C14 (amended): an update whose patch equals the current values of a
\* tunnel that is not running (and whose record nothing else changes
\* meanwhile) leaves the stored record identical to the record before the
\* update and returns that stored record.
C14_UpdateSameNotRunning ==
    [][\A r \in Reqs :
          (req[r].pc = "update_write" /\ StepOf(r) /\ Visible(req[r].id)
              /\ req[r].name = req[r].tunnel.Name
              /\ req[r].tunnel.Status # TunnelStatusActive
              /\ db[req[r].id] = req[r].tunnel) =>
              /\ ret' = "ok"
              /\ db'[req[r].id] = req[r].tunnel
              /\ UpdatedTunnel(r) = db'[req[r].id]]_vars

\* an update with the current name is about to write the record of a
\* stopped tunnel that has run before and carries counters
C14_Witness ==
    \E r \in Reqs :
        /\ req[r].pc = "update_write"
        /\ Visible(req[r].id)
        /\ req[r].name = req[r].tunnel.Name
        /\ db[req[r].id] = req[r].tunnel
        /\ req[r].tunnel.Status = TunnelStatusInactive
        /\ req[r].tunnel.BytesIn > 0

\* a successful start of tunnel id: a new instance of it is spawned
StartOf(id) ==
    /\ Len(procs') = Len(procs) + 1
    /\ procs'[Len(procs')].ID = id

\* C15: between two consecutive starts of a tunnel the values read for its
\* counters never decrease: a counter of the record gets smaller only in the
\* step of a start of that tunnel.
C15_CountersMonotonic ==
    [][\A id \in DOMAIN db :
          (\/ db'[id].BytesIn < db[id].BytesIn
           \/ db'[id].BytesOut < db[id].BytesOut
           \/ db'[id].ConnectionCount < db[id].ConnectionCount) =>
              StartOf(id)]_vars

\* C16: right after a successful start the counters of the tunnel are zero,
\* in the new instance and in the record (bytes_in, bytes_out,
\* connection_count), whatever the previous run left.
C16_RestartCountersZero ==
    [][\A r \in Reqs :
          (req[r].pc = "start_cs" /\ StepOf(r) /\ Visible(req[r].id)
              /\ StartOf(req[r].id)) =>
              /\ procs'[Len(procs')].Metrics =
                     [ConnectionCount |-> 0, BytesIn |-> 0, BytesOut |-> 0]
              /\ db'[req[r].id].BytesIn = 0
              /\ db'[req[r].id].BytesOut = 0
              /\ db'[req[r].id].ConnectionCount = 0]_vars

\* what client c has been sent so far: written to its connection, or queued
Received(c) == wsClients[c].Written \o wsClients[c].Send

IsStateEvent(m, st) == m.Type = "tunnel_update" /\ m.Data = st

\* C17: when a stop of a started tunnel of owner o succeeds, every client
\* registered for o has received, in this order, the state events connecting
\* and active, a metrics update, and the state event inactive.
C17_StartStopEvents ==
    [][\A r \in Reqs :
          (req[r].pc = "stop_cs" /\ req[r].op = "stop" /\ StepOf(r)
              /\ ret' = "ok" /\ Visible(req[r].id)) =>
              \A c \in ClientIds :
                  (wsClients'[c].inHub
                      /\ wsClients'[c].UserID = db[req[r].id].UserID) =>
                      \E i, j, k, l \in DOMAIN Received(c)' :
                          /\ i < j /\ j < k /\ k < l
                          /\ IsStateEvent(Received(c)'[i], TunnelStatusConnecting)
                          /\ IsStateEvent(Received(c)'[j], TunnelStatusActive)
                          /\ Received(c)'[k].Type = "metrics_update"
                          /\ IsStateEvent(Received(c)'[l], TunnelStatusInactive)]_vars

\* C18: a broadcast to owner o reaches every registered client of o (those
\* with room in their channel at least) and no client of another owner:
\* no client ever holds a message addressed to another owner, and the step
\* that ends the loop of a broadcast to o, by returning or by suspending,
\* leaves the message with every registered client of o that had room.
C18_ToOwnerOnly ==
    /\ [](\A c \in ClientIds : \A i \in DOMAIN Received(c) :
              Received(c)[i].to \in Users =>
                  Received(c)[i].to = wsClients[c].UserID)
    /\ [][(pub.pc = "loop" /\ pub'.pc # "loop" /\ pub.msg.to \in Users) =>
              \A c \in ClientIds :
                  (/\ wsClients[c].inHub
                   /\ wsClients[c].UserID = pub.msg.to
                   /\ Len(wsClients[c].Send) < SendCap) =>
                      \E i \in DOMAIN Received(c)' :
                          Received(c)'[i] = pub.msg]_vars

\* C19: a broadcast never blocks on a slow client: a sendMessage that finds
\* the channel of client c full removes c from the hub, closes its channel
\* and lets the broadcast go on.
C19_FullBufferDropsClient ==
    [][\A c \in ClientIds :
          (sendMessage(c) /\ Len(wsClients[c].Send) >= SendCap) =>
              /\ ~wsClients'[c].inHub
              /\ wsClients'[c].closes = 1
              /\ pub'.pc \in {"loop", "idle"}]_vars

\* the broadcast events among the messages written to the connection of c
WrittenEvents(c) ==
    SelectSeq(wsClients[c].Written, LAMBDA m : m.Type # "welcome")

\* C20: the messages written to a client's connection are a subsequence of
\* what the publisher published, in publish order, none twice: each written
\* event is the published message of its number, and the numbers increase.
C20_PublishOrder ==
    \A c \in ClientIds :
        /\ \A i \in DOMAIN WrittenEvents(c) :
               /\ WrittenEvents(c)[i].n \in DOMAIN pub.log
               /\ WrittenEvents(c)[i] = pub.log[WrittenEvents(c)[i].n]
        /\ \A i, j \in DOMAIN WrittenEvents(c) :
               i < j => WrittenEvents(c)[i].n < WrittenEvents(c)[j].n

\* two consecutive events of the publisher were written to one client's
\* connection
C20_Witness ==
    \E c \in ClientIds :
        /\ Len(WrittenEvents(c)) >= 2
        /\ WrittenEvents(c)[1].n + 1 = WrittenEvents(c)[2].n

----------------------------------------------------------------------------
(* The heartbeat of a WebSocket connection: writePump writes a ping every  *)
(* pingPeriod seconds, readPump's pong handler moves the read deadline to  *)
(* pongWait seconds after the pong, and a ReadMessage that meets the       *)
(* deadline fails, which ends readPump.  Nothing in the repository starts  *)
(* StartCleanup, so cleanupStaleConnections never runs.                    *)

MaxPings == 3    \* pings a connection lives to see
\* the step of the clock; pingPeriod and pongWait are multiples of it
TimeUnit == pongWait - pingPeriod
Horizon  == MaxPings * pingPeriod + pongWait

\* a timer of connection c has fired and its goroutine has not run yet
Due(c) ==
    /\ wsClients[c].Conn = "open"
    /\ now >= wsClients[c].ReadDeadline \/ now >= wsClients[c].nextPing

\* time passes, never beyond a timer that is due
Tick ==
    /\ now + TimeUnit <= Horizon
    /\ \A c \in ClientIds : ~Due(c)
    /\ now' = now + TimeUnit
    /\ UNCHANGED <<wsClients, pub, tunnelVars, authVars, edgeVars>>

\* writePump, case <-ticker.C: a ping frame is written to the peer
ping(c) ==
    /\ wsClients[c].Conn = "open"
    /\ now >= wsClients[c].nextPing
    /\ wsClients' = [wsClients EXCEPT ![c].nextPing = @ + pingPeriod,
                                      ![c].unacked = @ + 1]
    /\ UNCHANGED <<pub, now, tunnelVars, authVars, edgeVars>>

\* the pong handler of readPump: the peer's pong arrived before the deadline
pong(c) ==
    /\ wsClients[c].Conn = "open"
    /\ wsClients[c].unacked > 0
    /\ now < wsClients[c].ReadDeadline
    /\ wsClients' = [wsClients EXCEPT ![c].ReadDeadline = now + pongWait,
                                      ![c].LastSeen = now,
                                      ![c].unacked = 0]
    /\ UNCHANGED <<pub, now, tunnelVars, authVars, edgeVars>>

\* ReadMessage fails at the read deadline: readPump ends
readDeadline(c) ==
    /\ now >= wsClients[c].ReadDeadline
    /\ readPump(c)

BeatNext ==
    \/ \E c \in ClientIds, u \in Users : HandleWebSocket(c, u)
    \/ Tick
    \/ \E c \in ClientIds : ping(c)
    \/ \E c \in ClientIds : pong(c)
    \/ \E c \in ClientIds : readDeadline(c)
    \/ \E c \in ClientIds : writePump(c)

SpecBeat == Init /\ [][BeatNext]_vars

\* C21: a subscriber is dropped for silence only once three consecutive
\* pings went without a pong; with one or two unanswered pings it stays
\* registered.
C21_DroppedAfterThreeMissed ==
    [][\A c \in ClientIds :
         (wsClients[c].inHub /\ readDeadline(c)) => wsClients[c].unacked >= 3]_vars

----------------------------------------------------------------------------
(* AuthService.  Every access to the database or to Redis is one step; the *)
(* code between two accesses works on the locals of the call and belongs   *)
(* to the step of the access before it.  LockedUntil = 0 is the nil        *)
(* pointer.  A token is named by the number of the call that generated it: *)
(* calls that generate tokens at different seconds get different strings.  *)

MaxCalls == 5       \* AuthService calls ever made
MaxLockouts == 1    \* lockout periods the clock runs through

PasswordSample == {"pw1", "pw2"}
EmailSample == {"a@x.io", "b@x.io"}

\* the attempts of Login that lock the account
maxLoginAttempts == 5

\* the seconds an account stays locked
lockoutDuration == 1800

StatusActive == "active"

\* bcrypt.GenerateFromPassword
HashPassword(password) == <<"bcrypt", password>>

\* bcrypt.CompareHashAndPassword
CheckPassword(user, password) == user.Password = HashPassword(password)

\* User.IsLocked
IsLocked(user) == user.LockedUntil # 0 /\ user.LockedUntil > now

\* generateTokens for the user of row id in call number n
AccessToken(id, n) == <<"access", id, n>>
RefreshTokenOf(id, n) == <<"refresh", id, n>>

\* verifyToken: claims.UserID of a token this service signed
verifyToken(token) == token[2]

\* the key "session:<token>"
SessionKey(token) == <<"session", token>>

\* the fields Login stores under a session key
sessionData == {"user_id", "username", "role", "ip_address", "user_agent"}

\* HMSet/Set: the key with its value
RedisSet(key, value) == [x \in DOMAIN redis \cup {key} |->
                            IF x = key THEN value ELSE redis[x]]

\* Del
RedisDel(keys) == [x \in DOMAIN redis \ keys |-> redis[x]]

\* rows the soft-delete scope of a query sees
LiveUsers == {i \in DOMAIN usersTable : ~usersTable[i].DeletedAt}

\* (mutation: the lookup compares the username only)
FirstUser_NameOnly(a, b) ==
    LET hits == {i \in LiveUsers : usersTable[i].Username = a} IN
    IF hits = {} THEN 0 ELSE CHOOSE i \in hits : \A j \in hits : i <= j

\* Where("username = ? OR email = ?", a, b).First: the row id, 0 for none
FirstUser(a, b) ==
    LET hits == {i \in LiveUsers : \/ usersTable[i].Username = a
                                   \/ usersTable[i].Email = b} IN
    IF hits = {} THEN 0 ELSE CHOOSE i \in hits : \A j \in hits : i <= j

\* a call enters the service in slot k
Enter(k) ==
    /\ call[k].pc = "idle"
    /\ ncalls < MaxCalls
    /\ ncalls' = ncalls + 1

\* the locals of a call that enters: its number, and how many calls had
\* returned before it
NewCall(op) == [IdleCall EXCEPT !.op = op, !.n = ncalls + 1,
                                !.seen = Len(hist)]

\* the call c of slot k returns out
Leave(k, c, out) ==
    /\ call' = [call EXCEPT ![k] = IdleCall]
    /\ hist' = Append(hist, [c EXCEPT !.pc = "returned", !.out = out,
                                      !.user = NoUser, !.found = {}])

\* the call of slot k goes on as c
Continue(k, c) ==
    /\ call' = [call EXCEPT ![k] = c]
    /\ UNCHANGED hist

\* Login up to the password check: the row is read once, at the start
Login(k, username, password) ==
    /\ Enter(k)
    /\ LET id == FirstUser(username, username)
           c  == [NewCall("Login") EXCEPT !.uid = id, !.username = username,
                                          !.password = password]
           user == usersTable[id]
       IN  IF id = 0 THEN Leave(k, c, "invalid credentials")
           ELSE IF IsLocked(user) THEN Leave(k, c, "account is locked")
           ELSE IF user.Status # StatusActive
                THEN Leave(k, c, "account is not active")
           ELSE IF ~CheckPassword(user, password)
                THEN Continue(k, [c EXCEPT !.pc = "login_failed", !.user =
                        [user EXCEPT
                           !.FailedLoginAttempts = @ + 1,
                           !.LockedUntil =
                               IF user.FailedLoginAttempts + 1 >= maxLoginAttempts
                               THEN now + lockoutDuration ELSE @]])
           ELSE Continue(k, [c EXCEPT !.pc = "login_ok", !.user =
                        [user EXCEPT !.FailedLoginAttempts = 0,
                                     !.LockedUntil = 0]])
    /\ UNCHANGED <<usersTable, userSessions, redis>>
    /\ UNCHANGED <<tunnelVars, busVars>>

\* db.Save(&user): every column of the row is written from the struct
Save(user, id) == [usersTable EXCEPT ![id] = user]

\* Login, wrong password: s.db.Save(&user), then the error
LoginFailed(k) ==
    /\ call[k].pc = "login_failed"
    /\ usersTable' = Save(call[k].user, call[k].uid)
    /\ Leave(k, call[k], "invalid credentials")
    /\ UNCHANGED <<userSessions, redis, ncalls>>
    /\ UNCHANGED <<tunnelVars, busVars>>

\* Login, right password: s.db.Save(&user), then generateTokens
LoginSave(k) ==
    /\ call[k].pc = "login_ok"
    /\ usersTable' = Save(call[k].user, call[k].uid)
    /\ Continue(k, [call[k] EXCEPT !.pc = "login_session",
                                   !.token = AccessToken(call[k].uid, call[k].n)])
    /\ UNCHANGED <<userSessions, redis, ncalls>>
    /\ UNCHANGED <<tunnelVars, busVars>>

\* Login: s.db.Create(session)
LoginSession(k) ==
    /\ call[k].pc = "login_session"
    /\ userSessions' = Append(userSessions,
            [UserID |-> call[k].uid, Token |-> call[k].token,
             RefreshToken |-> RefreshTokenOf(call[k].uid, call[k].n),
             IsActive |-> TRUE])
    /\ Continue(k, [call[k] EXCEPT !.pc = "login_redis"])
    /\ UNCHANGED <<usersTable, redis, ncalls>>
    /\ UNCHANGED <<tunnelVars, busVars>>

\* Login: the session key in Redis, then the response with the tokens
LoginRedis(k) ==
    /\ call[k].pc = "login_redis"
    /\ redis' = RedisSet(SessionKey(call[k].token), sessionData)
    /\ Leave(k, call[k], "ok")
    /\ UNCHANGED <<usersTable, userSessions, ncalls>>
    /\ UNCHANGED <<tunnelVars, busVars>>

\* a lockout period passes
Elapse ==
    /\ now < MaxLockouts * lockoutDuration
    /\ now' = now + lockoutDuration
    /\ UNCHANGED <<wsClients, pub, tunnelVars, authVars, edgeVars>>

\* a registered account: the row Register stores
NewUser(username, email, password) ==
    [NoUser EXCEPT !.Username = username, !.Email = email,
                   !.Password = HashPassword(password),
                   !.Status = StatusActive]

\* no tunnel, no client
Quiet ==
    /\ db = <<>>
    /\ activeTunnels = <<>>
    /\ procs = <<>>
    /\ req = [r \in Reqs |-> IdleReq]
    /\ ret = None
    /\ issued = 0
    /\ BusInit

(* One registered account whose password is pw1; logins with the right and *)
(* with a wrong password, two at a time.                                   *)

LoginInit ==
    /\ Quiet
    /\ usersTable = << NewUser("alice", "a@x.io", "pw1") >>
    /\ userSessions = <<>>
    /\ redis = <<>>
    /\ call = [k \in Calls |-> IdleCall]
    /\ hist = <<>>
    /\ ncalls = 0

LoginNext ==
    \/ \E k \in Calls, pw \in PasswordSample : Login(k, "alice", pw)
    \/ \E k \in Calls : LoginFailed(k)
    \/ \E k \in Calls : LoginSave(k)
    \/ \E k \in Calls : LoginSession(k)
    \/ \E k \in Calls : LoginRedis(k)
    \/ Elapse

SpecLogin == LoginInit /\ [][LoginNext]_vars

\* the calls that returned since the last successful Login for row id
SinceSuccess(id) ==
    LET oks == {i \in DOMAIN hist : /\ hist[i].op = "Login"
                                    /\ hist[i].uid = id
                                    /\ hist[i].out = "ok"}
        from == IF oks = {} THEN 0 ELSE CHOOSE i \in oks : \A j \in oks : j <= i
    IN  {i \in DOMAIN hist : i > from}

\* the failed password attempts for row id since its last successful Login
FailedAttempts(id) ==
    Cardinality({i \in SinceSuccess(id) : /\ hist[i].op = "Login"
                                          /\ hist[i].uid = id
                                          /\ hist[i].out = "invalid credentials"})

\* C22: once 5 password attempts in a row failed for an account, the
\* account is locked (until the lock expires), and from then on no Login
\* for it is past the lock check: none is about to issue tokens or a session.
C22_LockedAfterFiveFailures ==
    \A id \in DOMAIN usersTable :
        (FailedAttempts(id) >= maxLoginAttempts /\ now = 0)
            => /\ IsLocked(usersTable[id])
               /\ \A k \in Calls : call[k].uid = id =>
                      call[k].pc \notin {"login_ok", "login_session", "login_redis"}

----------------------------------------------------------------------------
(* Sessions: ValidateToken and Logout *)

\* the access tokens handed out so far
IssuedTokens ==
    {hist[i].token : i \in {j \in DOMAIN hist : /\ hist[j].op = "Login"
                                                /\ hist[j].out = "ok"}}

\* HSet(key, field, value): the field is added, to a hash made on demand
HSet(key, field) ==
    RedisSet(key, (IF key \in DOMAIN redis THEN redis[key] ELSE {}) \cup {field})

\* ValidateToken up to the status check: the session key is looked up, the
\* token verified, the user row read
ValidateToken(k, token) ==
    /\ Enter(k)
    /\ LET c == [NewCall("ValidateToken") EXCEPT !.token = token,
                                                 !.uid = verifyToken(token)]
       IN  IF SessionKey(token) \notin DOMAIN redis
           THEN Leave(k, c, "invalid or expired token")
           ELSE IF c.uid \notin LiveUsers THEN Leave(k, c, "user not found")
           ELSE IF usersTable[c.uid].Status # StatusActive
                THEN Leave(k, c, "account is not active")
           ELSE Continue(k, [c EXCEPT !.pc = "validate_touch"])
    /\ UNCHANGED <<usersTable, userSessions, redis>>
    /\ UNCHANGED <<tunnelVars, busVars>>

\* ValidateToken: HSet of last_used, then the user is returned
ValidateTouch(k) ==
    /\ call[k].pc = "validate_touch"
    /\ redis' = HSet(SessionKey(call[k].token), "last_used")
    /\ Leave(k, call[k], "ok")
    /\ UNCHANGED <<usersTable, userSessions, ncalls>>
    /\ UNCHANGED <<tunnelVars, busVars>>

\* Logout: the session key is deleted
Logout(k, token) ==
    /\ Enter(k)
    /\ redis' = RedisDel({SessionKey(token)})
    /\ Continue(k, [NewCall("Logout") EXCEPT !.pc = "logout_db",
                                             !.token = token,
                                             !.uid = verifyToken(token)])
    /\ UNCHANGED <<usersTable, userSessions>>
    /\ UNCHANGED <<tunnelVars, busVars>>

\* Where("token = ?", token).Update("is_active", false)
Deactivate(rows) ==
    [i \in DOMAIN userSessions |->
        IF i \in rows THEN [userSessions[i] EXCEPT !.IsActive = FALSE]
        ELSE userSessions[i]]

\* Logout: the session row is deactivated; Logout returns nil
LogoutSession(k) ==
    /\ call[k].pc = "logout_db"
    /\ userSessions' = Deactivate({i \in DOMAIN userSessions :
                                      userSessions[i].Token = call[k].token})
    /\ Leave(k, call[k], "ok")
    /\ UNCHANGED <<usersTable, redis, ncalls>>
    /\ UNCHANGED <<tunnelVars, busVars>>

(* One registered account that has logged in once: the state when its     *)
(* first Login has returned.  Its token is validated and logged out, two   *)
(* calls at a time.                                                        *)

LoggedIn ==
    /\ Quiet
    /\ usersTable = << NewUser("alice", "a@x.io", "pw1") >>
    /\ userSessions = << [UserID |-> 1, Token |-> AccessToken(1, 1),
                          RefreshToken |-> RefreshTokenOf(1, 1),
                          IsActive |-> TRUE] >>
    /\ redis = [x \in {SessionKey(AccessToken(1, 1))} |-> sessionData]
    /\ call = [k \in Calls |-> IdleCall]
    /\ hist = << [IdleCall EXCEPT !.pc = "returned", !.op = "Login", !.n = 1,
                                  !.uid = 1, !.username = "alice",
                                  !.password = "pw1",
                                  !.token = AccessToken(1, 1), !.out = "ok"] >>
    /\ ncalls = 1

SessionNext ==
    \/ \E k \in Calls, token \in IssuedTokens : ValidateToken(k, token)
    \/ \E k \in Calls : ValidateTouch(k)
    \/ \E k \in Calls, token \in IssuedTokens : Logout(k, token)
    \/ \E k \in Calls : LogoutSession(k)

SpecSession == LoggedIn /\ [][SessionNext]_vars

\* C23: a ValidateToken(token) that is called after a Logout(token) has
\* returned fails, whatever ran concurrently with the Logout.
C23_LoggedOutTokenRejected ==
    \A i, j \in DOMAIN hist :
        ( /\ hist[i].op = "Logout"
          /\ hist[j].op = "ValidateToken"
          /\ hist[j].token = hist[i].token
          /\ hist[j].seen >= i )
        => hist[j].out # "ok"

----------------------------------------------------------------------------
(* Passwords: ChangePassword, ResetPassword, ConfirmPasswordReset and      *)
(* invalidateUserSessions; RefreshToken                                    *)

\* ChangePassword up to HashPassword: the row is read, the old password
\* checked, the new hash put into the local copy
ChangePassword(k, id, oldPassword, newPassword) ==
    /\ Enter(k)
    /\ LET c == [NewCall("ChangePassword") EXCEPT !.uid = id,
                        !.password = oldPassword, !.newPassword = newPassword]
       IN  IF id \notin LiveUsers THEN Leave(k, c, "user not found")
           ELSE IF ~CheckPassword(usersTable[id], oldPassword)
                THEN Leave(k, c, "invalid current password")
           ELSE Continue(k, [c EXCEPT !.pc = "password_save", !.user =
                    [usersTable[id] EXCEPT !.Password = HashPassword(newPassword)]])
    /\ UNCHANGED <<usersTable, userSessions, redis>>
    /\ UNCHANGED <<tunnelVars, busVars>>

\* ChangePassword: s.db.Save(&user)
PasswordSave(k) ==
    /\ call[k].pc = "password_save"
    /\ usersTable' = Save(call[k].user, call[k].uid)
    /\ Continue(k, [call[k] EXCEPT !.pc = "invalidate_find"])
    /\ UNCHANGED <<userSessions, redis, ncalls>>
    /\ UNCHANGED <<tunnelVars, busVars>>

\* invalidateUserSessions: Where("user_id = ? AND is_active = ?", id, true)
ActiveSessions(id) ==
    {i \in DOMAIN userSessions : /\ userSessions[i].UserID = id
                                 /\ userSessions[i].IsActive}

\* invalidateUserSessions: Find(&sessions)
InvalidateFind(k) ==
    /\ call[k].pc = "invalidate_find"
    /\ Continue(k, [call[k] EXCEPT !.pc = "invalidate_del", !.found =
            {userSessions[i].Token : i \in ActiveSessions(call[k].uid)}])
    /\ UNCHANGED <<usersTable, userSessions, redis, ncalls>>
    /\ UNCHANGED <<tunnelVars, busVars>>

\* invalidateUserSessions: the loop of Del over the sessions found
InvalidateDel(k) ==
    /\ call[k].pc = "invalidate_del"
    /\ redis' = RedisDel({SessionKey(t) : t \in call[k].found})
    /\ Continue(k, [call[k] EXCEPT !.pc = "invalidate_db"])
    /\ UNCHANGED <<usersTable, userSessions, ncalls>>
    /\ UNCHANGED <<tunnelVars, busVars>>

\* invalidateUserSessions: Where("user_id = ?", id).Update("is_active",
\* false); the caller returns nil
InvalidateSessions(k) ==
    /\ call[k].pc = "invalidate_db"
    /\ userSessions' = Deactivate({i \in DOMAIN userSessions :
                                      userSessions[i].UserID = call[k].uid})
    /\ Leave(k, call[k], "ok")
    /\ UNCHANGED <<usersTable, redis, ncalls>>
    /\ UNCHANGED <<tunnelVars, busVars>>

\* RefreshToken up to generateTokens
RefreshToken(k, refreshToken) ==
    /\ Enter(k)
    /\ LET id == verifyToken(refreshToken)
           c  == [NewCall("RefreshToken") EXCEPT !.uid = id,
                                                 !.refresh = refreshToken]
       IN  IF id \notin LiveUsers THEN Leave(k, c, "user not found")
           ELSE IF usersTable[id].Status # StatusActive
                THEN Leave(k, c, "account is not active")
           ELSE Continue(k, [c EXCEPT !.pc = "refresh_db",
                                      !.token = AccessToken(id, c.n)])
    /\ UNCHANGED <<usersTable, userSessions, redis>>
    /\ UNCHANGED <<tunnelVars, busVars>>

\* RefreshToken: Where("refresh_token = ?", refreshToken).Updates(...), then
\* the response with the new tokens
RefreshSession(k) ==
    /\ call[k].pc = "refresh_db"
    /\ userSessions' = [i \in DOMAIN userSessions |->
            IF userSessions[i].RefreshToken = call[k].refresh
            THEN [userSessions[i] EXCEPT
                     !.Token = call[k].token,
                     !.RefreshToken = RefreshTokenOf(call[k].uid, call[k].n)]
            ELSE userSessions[i]]
    /\ Leave(k, call[k], "ok")
    /\ UNCHANGED <<usersTable, redis, ncalls>>
    /\ UNCHANGED <<tunnelVars, busVars>>

\* the key "reset:<token>"
ResetKey(token) == <<"reset", token>>

\* generateResetToken in call number n
ResetToken(n) == <<"reset", 0, n>>

\* Where("email = ?", email).First: the row id, 0 for none
FirstByEmail(email) ==
    LET hits == {i \in LiveUsers : usersTable[i].Email = email} IN
    IF hits = {} THEN 0 ELSE CHOOSE i \in hits : \A j \in hits : i <= j

\* ResetPassword: nil for an unknown address; else a reset token is stored
\* under its key with the user id
ResetPassword(k, email) ==
    /\ Enter(k)
    /\ LET id == FirstByEmail(email)
           c  == [NewCall("ResetPassword") EXCEPT !.uid = id, !.email = email]
       IN  IF id = 0
           THEN Leave(k, c, "ok") /\ UNCHANGED redis
           ELSE /\ redis' = RedisSet(ResetKey(ResetToken(c.n)), id)
                /\ Leave(k, [c EXCEPT !.token = ResetToken(c.n)], "ok")
    /\ UNCHANGED <<usersTable, userSessions>>
    /\ UNCHANGED <<tunnelVars, busVars>>

\* the reset tokens sent out so far
ResetTokens ==
    {hist[i].token : i \in {j \in DOMAIN hist : /\ hist[j].op = "ResetPassword"
                                                /\ hist[j].uid # 0}}

\* ConfirmPasswordReset up to HashPassword
ConfirmPasswordReset(k, token, newPassword) ==
    /\ Enter(k)
    /\ LET c == [NewCall("ConfirmPasswordReset") EXCEPT
                        !.token = token, !.newPassword = newPassword]
       IN  IF ResetKey(token) \notin DOMAIN redis
           THEN Leave(k, c, "invalid or expired reset token")
           ELSE LET id == redis[ResetKey(token)] IN
                IF id \notin LiveUsers
                THEN Leave(k, [c EXCEPT !.uid = id], "user not found")
                ELSE Continue(k, [c EXCEPT !.pc = "reset_save", !.uid = id,
                        !.user = [usersTable[id] EXCEPT
                                     !.Password = HashPassword(newPassword)]])
    /\ UNCHANGED <<usersTable, userSessions, redis>>
    /\ UNCHANGED <<tunnelVars, busVars>>

\* ConfirmPasswordReset: s.db.Save(&user)
ResetSave(k) ==
    /\ call[k].pc = "reset_save"
    /\ usersTable' = Save(call[k].user, call[k].uid)
    /\ Continue(k, [call[k] EXCEPT !.pc = "reset_del"])
    /\ UNCHANGED <<userSessions, redis, ncalls>>
    /\ UNCHANGED <<tunnelVars, busVars>>

\* ConfirmPasswordReset: the reset key is deleted
ResetDel(k) ==
    /\ call[k].pc = "reset_del"
    /\ redis' = RedisDel({ResetKey(call[k].token)})
    /\ Continue(k, [call[k] EXCEPT !.pc = "invalidate_find"])
    /\ UNCHANGED <<usersTable, userSessions, ncalls>>
    /\ UNCHANGED <<tunnelVars, busVars>>

(* One registered account: its password is changed while it logs in.       *)

PasswordNext ==
    \/ \E k \in Calls, pw \in PasswordSample : Login(k, "alice", pw)
    \/ \E k \in Calls : LoginFailed(k)
    \/ \E k \in Calls : LoginSave(k)
    \/ \E k \in Calls : LoginSession(k)
    \/ \E k \in Calls : LoginRedis(k)
    \/ \E k \in Calls, old, new \in PasswordSample :
            ChangePassword(k, 1, old, new)
    \/ \E k \in Calls : PasswordSave(k)
    \/ \E k \in Calls : InvalidateFind(k)
    \/ \E k \in Calls : InvalidateDel(k)
    \/ \E k \in Calls : InvalidateSessions(k)

SpecPassword == LoggedIn /\ [][PasswordNext]_vars

\* the calls that change a password
PasswordOps == {"ChangePassword", "ConfirmPasswordReset"}

\* the successful password change at hist[i] is the latest one for its
\* account: every other one returned before, none is in flight
LatestChange(i) ==
    /\ hist[i].op \in PasswordOps
    /\ hist[i].out = "ok"
    /\ \A j \in DOMAIN hist :
          (j > i /\ hist[j].uid = hist[i].uid) => hist[j].op \notin PasswordOps
    /\ \A k \in Calls : call[k].uid = hist[i].uid => call[k].op \notin PasswordOps

\* C24: once ChangePassword has returned successfully, a Login called
\* afterwards fails with the old password and does not fail on the
\* password with the new one, also when logins ran concurrently with the
\* change.
C24_OldPasswordDead ==
    \A i, j \in DOMAIN hist :
        ( /\ LatestChange(i)
          /\ hist[i].op = "ChangePassword"
          /\ hist[i].password # hist[i].newPassword
          /\ hist[j].op = "Login"
          /\ hist[j].uid = hist[i].uid
          /\ hist[j].seen >= i )
        => /\ hist[j].password = hist[i].password => hist[j].out # "ok"
           /\ hist[j].password = hist[i].newPassword
                 => hist[j].out # "invalid credentials"

(* One registered account that has logged in once: its session is          *)
(* refreshed, its password changed or reset, its tokens validated.         *)

\* the refresh tokens handed out so far
IssuedRefreshTokens ==
    {RefreshTokenOf(hist[i].uid, hist[i].n) :
        i \in {j \in DOMAIN hist : /\ hist[j].op \in {"Login", "RefreshToken"}
                                   /\ hist[j].out = "ok"}}

\* the access tokens handed out so far, by Login or by RefreshToken
AccessTokens ==
    {hist[i].token :
        i \in {j \in DOMAIN hist : /\ hist[j].op \in {"Login", "RefreshToken"}
                                   /\ hist[j].out = "ok"}}

RevokeNext ==
    \/ \E k \in Calls, t \in IssuedRefreshTokens : RefreshToken(k, t)
    \/ \E k \in Calls : RefreshSession(k)
    \/ \E k \in Calls : ChangePassword(k, 1, "pw1", "pw2")
    \/ \E k \in Calls : PasswordSave(k)
    \/ \E k \in Calls : ResetPassword(k, "a@x.io")
    \/ \E k \in Calls, t \in ResetTokens : ConfirmPasswordReset(k, t, "pw2")
    \/ \E k \in Calls : ResetSave(k)
    \/ \E k \in Calls : ResetDel(k)
    \/ \E k \in Calls : InvalidateFind(k)
    \/ \E k \in Calls : InvalidateDel(k)
    \/ \E k \in Calls : InvalidateSessions(k)
    \/ \E k \in Calls, t \in AccessTokens : ValidateToken(k, t)
    \/ \E k \in Calls : ValidateTouch(k)

SpecRevoke == LoggedIn /\ [][RevokeNext]_vars

\* C25: once a ChangePassword or ConfirmPasswordReset has returned
\* successfully, no access token that Login or RefreshToken had handed out
\* to the account before that call began is accepted by a ValidateToken
\* called afterwards.
C25_PasswordChangeRevokesTokens ==
    \A i, j, m \in DOMAIN hist :
        ( /\ hist[i].op \in PasswordOps
          /\ hist[i].out = "ok"
          /\ hist[m].op \in {"Login", "RefreshToken"}
          /\ hist[m].out = "ok"
          /\ hist[m].uid = hist[i].uid
          /\ m <= hist[i].seen
          /\ hist[j].op = "ValidateToken"
          /\ hist[j].token = hist[m].token
          /\ hist[j].seen >= i )
        => hist[j].out # "ok"

----------------------------------------------------------------------------
(* Register *)

\* the unique indexes of users.username and users.email let the row in
UniqueIndexesFree(user) ==
    \A i \in DOMAIN usersTable : /\ usersTable[i].Username # user.Username
                                 /\ usersTable[i].Email # user.Email

\* Register up to HashPassword: the lookup for the username or the email
Register(k, username, email, password) ==
    /\ Enter(k)
    /\ LET c == [NewCall("Register") EXCEPT !.username = username,
                        !.email = email, !.password = password]
       IN  IF FirstUser(username, email) # 0
           THEN Leave(k, c, "username or email already exists")
           ELSE Continue(k, [c EXCEPT !.pc = "register_create",
                                      !.user = NewUser(username, email, password)])
    /\ UNCHANGED <<usersTable, userSessions, redis>>
    /\ UNCHANGED <<tunnelVars, busVars>>

\* Register: s.db.Create(user), then the user or the error of the insert
RegisterCreate(k) ==
    /\ call[k].pc = "register_create"
    /\ IF UniqueIndexesFree(call[k].user)
       THEN /\ usersTable' = Append(usersTable, call[k].user)
            /\ Leave(k, [call[k] EXCEPT !.uid = Len(usersTable) + 1], "ok")
       ELSE /\ UNCHANGED usersTable
            /\ Leave(k, call[k], "failed to create user")
    /\ UNCHANGED <<userSessions, redis, ncalls>>
    /\ UNCHANGED <<tunnelVars, busVars>>

RegisterNext ==
    \/ \E k \in Calls, u \in Users, e \in EmailSample : Register(k, u, e, "pw1")
    \/ \E k \in Calls : RegisterCreate(k)

SpecRegister == Init /\ [][RegisterNext]_vars

\* some stored user has the username or the email
Taken(username, email) ==
    \E i \in DOMAIN usersTable : \/ usersTable[i].Username = username
                                 \/ usersTable[i].Email = email

\* C26: a Register whose username or email is that of a stored user returns
\* 'already exists' and stores nothing, and whatever registrations ran, one
\* after another or at once, no two stored users share a username or an
\* email.
C26_RegisterUnique ==
    /\ [](\A i, j \in DOMAIN usersTable :
            i # j => /\ usersTable[i].Username # usersTable[j].Username
                     /\ usersTable[i].Email # usersTable[j].Email)
    /\ [][\A k \in Calls, u \in Users, e \in EmailSample :
            (Register(k, u, e, "pw1") /\ Taken(u, e))
            => /\ hist'[Len(hist')].out = "username or email already exists"
               /\ call'[k] = IdleCall
               /\ usersTable' = usersTable]_vars

\* two users are stored, and a Register for a stored name was turned away
C26_Witness ==
    /\ Len(usersTable) = 2
    /\ \E i \in DOMAIN hist :
          /\ hist[i].op = "Register"
          /\ hist[i].out = "username or email already exists"
    /\ \E i \in DOMAIN hist :
          /\ hist[i].op = "Register"
          /\ hist[i].out = "failed to create user"

----------------------------------------------------------------------------
(* Ports: tunnels are created and updated with ports at and beyond the     *)
(* ends of the valid range.                                                *)

PortBoundary == {0, 1, 65535, 65536}

\* the port pairs of the requests: one port at a time leaves the middle
PortPairs(other) ==
    {<<p, other>> : p \in PortBoundary} \cup {<<other, p>> : p \in PortBoundary}

\* the state after one create request that was turned away for its ports
PortsInit ==
    /\ db = <<>>
    /\ activeTunnels = <<>>
    /\ procs = <<>>
    /\ req = [r \in Reqs |-> IdleReq]
    /\ ret = "validation"
    /\ issued = 1
    /\ BusInit
    /\ NoAccounts

\* the name a user gives its tunnel, and the name an update keeps
NameOf == [u \in Users |-> IF u = "alice" THEN "a" ELSE "b"]
KeptName(id) == IF id \in DOMAIN db THEN db[id].Name ELSE "a"

\* the owner of a tunnel, who updates it
OwnerOf(id) == IF id \in DOMAIN db THEN db[id].UserID ELSE "alice"

PortsNext ==
    \/ \E r \in Reqs, u \in Users, pp \in PortPairs(8080) :
            BeginCreate(r, u, NameOf[u], "tcp", pp[1], pp[2], Absent)
    \/ \E r \in Reqs : CreateCheck(r)
    \/ \E r \in Reqs : CreateInsert(r)
    \/ \E r \in Reqs, id \in Ids, pp \in PortPairs(Absent) :
            BeginUpdate(r, OwnerOf(id), id, KeptName(id), pp[1], pp[2])
    \/ \E r \in Reqs : UpdateRead(r)
    \/ \E r \in Reqs : UpdateWrite(r)

SpecPorts == PortsInit /\ [][PortsNext]_vars

ValidPort(p) == 1 <= p /\ p <= 65535

\* C27: a create request is turned away for its ports exactly when one of
\* them is outside 1..65535, then with a validation error and nothing
\* stored; and whatever creates and updates ran, both ports of every stored
\* tunnel are within 1..65535.
C27_PortsInRange ==
    /\ [](\A i \in DOMAIN db : ValidPort(db[i].ServerPort) /\ ValidPort(db[i].TargetPort))
    /\ [][issued' # issued =>
          \A r \in Reqs, u \in Users, pp \in PortPairs(8080) :
            BeginCreate(r, u, NameOf[u], "tcp", pp[1], pp[2], Absent)
            => IF ValidPort(pp[1]) /\ ValidPort(pp[2])
               THEN ret' # "validation" \/ req'[r].pc # "idle"
               ELSE ret' = "validation" /\ req'[r].pc = "idle" /\ db' = db]_vars
    /\ [][\A r \in Reqs : CreateCheck(r) =>
            (ret' # "validation" \/ req'[r].pc # "idle")]_vars

\* a tunnel was created with port 1, an update moved a port of another to
\* 65535, and the last request was turned away for its ports
C27_Witness ==
    /\ \E i \in DOMAIN db : db[i].ServerPort = 1 /\ db[i].TargetPort = 8080
    /\ \E i \in DOMAIN db : db[i].TargetPort = 65535
    /\ ret = "validation"

----------------------------------------------------------------------------
(* Mux: tunnels are created with mux_config.connections at and beyond the  *)
(* ends of 1..64, or without a mux_config.                                 *)

MuxSample == {Absent, 0, 1, 64, 65}

MuxNext ==
    \/ \E r \in Reqs, u \in Users, mux \in MuxSample :
            BeginCreate(r, u, NameOf[u], "tcp", 8080, 8080, mux)
    \/ \E r \in Reqs : CreateCheck(r)
    \/ \E r \in Reqs : CreateInsert(r)

SpecMux == Init /\ [][MuxNext]_vars

\* C28: a tunnel whose mux streams parameter is outside 1..64 is turned
\* away with a validation error: no stored tunnel has such a value.
C28_MuxStreamsInRange ==
    \A i \in DOMAIN db : 1 <= db[i].MuxConnections /\ db[i].MuxConnections <= 64

----------------------------------------------------------------------------
(* Transports: tunnels of every protocol of the transport enum are created *)
(* and started.                                                            *)

\* the transports of the enum, by their TunnelProtocol constants
TransportEnum == {"tcp", "udp", "ws", "wss", "tcpmux", "wsmux", "wssmux"}

TransportNext ==
    \/ \E r \in Reqs, u \in Users, proto \in TransportEnum :
            BeginCreate(r, u, NameOf[u], proto, 8080, 8080, Absent)
    \/ \E r \in Reqs : CreateCheck(r)
    \/ \E r \in Reqs : CreateInsert(r)
    \/ \E r \in Reqs, id \in Ids : BeginStart(r, OwnerOf(id), id)
    \/ \E r \in Reqs : StartRead(r)
    \/ \E r \in Reqs : StartTunnel(r)

SpecTransport == Init /\ [][TransportNext]_vars

\* C29: start of a stored tunnel never fails as an unsupported protocol,
\* whichever transport of the enum the tunnel has.
C29_EveryTransportStarts ==
    [][\A r \in Reqs :
         (StartTunnel(r) /\ req[r].proto \in TransportEnum)
         => ret' # "unsupported-protocol"]_vars

----------------------------------------------------------------------------
(* Instances: a tunnel is stopped and started again while the monitor of   *)
(* the earlier instance is still alive.                                    *)

\* the instance p is not the one the registry holds for its tunnel
Stale(p) ==
    procs[p].ID \notin DOMAIN activeTunnels \/ activeTunnels[procs[p].ID] # p

StatusOf(t) == [i \in DOMAIN t |-> t[i].Status]

----------------------------------------------------------------------------
(* Deleted tunnels *)

\* C31: no instance is registered, and no process runs, for a tunnel record
\* that is deleted.
C31_NoInstanceForDeleted ==
    \A i \in DOMAIN db :
      db[i].DeletedAt =>
        /\ i \notin DOMAIN activeTunnels
        /\ \A p \in DOMAIN procs : procs[p].ID = i => ~procs[p].running

----------------------------------------------------------------------------
(* Who writes the counters of a record *)

CountersOf(row) == <<row.ConnectionCount, row.BytesIn, row.BytesOut>>

\* C32: the counters of a tunnel record change only in a step of the monitor
\* of the instance the registry holds for that tunnel: a stopped instance's
\* monitor writes nothing.
C32_OnlyRegisteredMonitorWrites ==
    [][\A i \in DOMAIN db :
         CountersOf(db'[i]) # CountersOf(db[i]) =>
           /\ i \in DOMAIN activeTunnels
           /\ procs'[activeTunnels[i]].Metrics # procs[activeTunnels[i]].Metrics]_vars

----------------------------------------------------------------------------
(* Inbound messages: readPump reads a "ping" message of the client and     *)
(* handleMessage answers it on the client's own Send channel.              *)

MaxInbound == 2    \* "ping" messages a client ever gets an answer to

pongMsg == [Type |-> "pong", Data |-> "timestamp", n |-> 0, to |-> None]

\* the pong replies enqueued to c so far
Pongs(c) ==
    Cardinality({i \in DOMAIN Received(c) : Received(c)[i] = pongMsg})

\* readPump reads a message of type "ping"; handleMessage calls sendMessage
\* with the pong, from the readPump goroutine, which holds no lock.  A send
\* on a closed channel panics, in a select too; on a full channel the
\* default case runs unregisterClient and readPump goes on reading.
handleMessage(c) ==
    /\ wsClients[c].Conn = "open"
    /\ IF wsClients[c].closes > 0
       THEN wsClients' = [wsClients EXCEPT ![c].Conn = "panic"]
       ELSE IF Len(wsClients[c].Send) < SendCap
       THEN /\ Pongs(c) < MaxInbound
            /\ wsClients' = [wsClients EXCEPT ![c].Send = Append(@, pongMsg)]
       ELSE /\ MuxFree
            /\ wsClients' = [wsClients EXCEPT
                   ![c].inHub = FALSE,
                   ![c].closes = IF wsClients[c].inHub THEN @ + 1 ELSE @]
    /\ UNCHANGED <<pub, now, tunnelVars, authVars, edgeVars>>

PingNext ==
    \/ \E c \in ClientIds, u \in Users : HandleWebSocket(c, u)
    \/ BroadcastMetrics
    \/ \E c \in ClientIds : sendMessage(c)
    \/ \E c \in ClientIds : writePump(c)
    \/ \E c \in ClientIds : readPump(c)
    \/ \E c \in ClientIds : handleMessage(c)

SpecPing == Init /\ [][PingNext]_vars

\* C33: no goroutine ever sends on a Send channel that was closed, and no
\* Send channel is closed twice.
C33_NoSendAfterClose ==
    \A c \in ClientIds : wsClients[c].Conn # "panic" /\ wsClients[c].closes <= 1

----------------------------------------------------------------------------
(* Registration in two steps: registerClient puts the client into the map  *)
(* and then sends the welcome message, both with clientsMux held.          *)

\* HandleWebSocket up to ws.clients[client.ID] = client in registerClient
registerClient(c, u) ==
    /\ wsClients[c].Conn = "none"
    /\ MuxFree
    /\ wsClients' = [wsClients EXCEPT
           ![c] = [NewClient(c, u, now) EXCEPT !.Conn = "registering",
                                               !.Send = <<>>]]
    /\ UNCHANGED <<pub, now, tunnelVars, authVars, edgeVars>>

\* the rest of registerClient, client.sendMessage(welcomeMsg) and Unlock,
\* and the start of the two pumps
registerWelcome(c) ==
    /\ wsClients[c].Conn = "registering"
    /\ Len(wsClients[c].Send) < SendCap
    /\ wsClients' = [wsClients EXCEPT
           ![c].Send = Append(@, welcomeMsg(c)), ![c].Conn = "open"]
    /\ UNCHANGED <<pub, now, tunnelVars, authVars, edgeVars>>

GreetNext ==
    \/ \E c \in ClientIds, u \in Users : registerClient(c, u)
    \/ \E c \in ClientIds : registerWelcome(c)
    \/ \E u \in Users, st \in UpdateSample : BroadcastTunnelUpdate(u, st)
    \/ BroadcastMetrics
    \/ \E c \in ClientIds : sendMessage(c)
    \/ \E c \in ClientIds : writePump(c)
    \/ \E c \in ClientIds : readPump(c)

SpecGreet == Init /\ [][GreetNext]_vars

\* C34: whatever was enqueued to a client so far, the first message is the
\* welcome message with the client's id, and it is the only welcome message.
C34_WelcomeFirst ==
    \A c \in ClientIds :
      Received(c) # <<>> =>
        /\ Received(c)[1] = welcomeMsg(c)
        /\ \A i \in 2..Len(Received(c)) : Received(c)[i].Type # "welcome"

\* two clients are registered, and each got a broadcast after its welcome
\* message
C34_Witness ==
    \E c, d \in ClientIds :
      /\ Len(Received(c)) >= 2
      /\ Received(c)[2].Type = "metrics_update"
      /\ wsClients[d].Conn = "open"
      /\ Len(Received(d)) >= 2
      /\ c # d

----------------------------------------------------------------------------
(* MonitoringService: the clients map behind clientsMux, and statsMux,     *)
(* which UpdateTunnelStats holds for its whole run, broadcastStats         *)
(* included.                                                               *)

\* m.clientsMux.Lock() of RegisterWebSocketClient ("reg") or of
\* UnregisterWebSocketClient ("unreg") for client c
MonLock(c, op) ==
    /\ mon.wlock = <<>>
    /\ mon.readers = {}
    /\ mon' = [mon EXCEPT !.wlock = <<op, c>>]
    /\ UNCHANGED <<wsClients, pub, now, limiter, tunnelVars, authVars>>

\* RegisterWebSocketClient past the Lock: m.clients[clientID] = conn, Unlock
RegisterWebSocketClient(c) ==
    /\ mon.wlock = <<"reg", c>>
    /\ mon' = [mon EXCEPT !.clients = @ \cup {c}, !.wlock = <<>>]
    /\ UNCHANGED <<wsClients, pub, now, limiter, tunnelVars, authVars>>

\* UnregisterWebSocketClient past the Lock: delete if present, Unlock
UnregisterWebSocketClient(c) ==
    /\ mon.wlock = <<"unreg", c>>
    /\ mon' = [mon EXCEPT !.clients = @ \ {c}, !.wlock = <<>>]
    /\ UNCHANGED <<wsClients, pub, now, limiter, tunnelVars, authVars>>

\* UpdateTunnelStats: m.statsMux.Lock() and the bookkeeping up to the call
\* of broadcastStats
UpdateTunnelStats(u) ==
    /\ mon.upd[u].pc = "idle"
    /\ mon.statsMux = None
    /\ mon' = [mon EXCEPT !.statsMux = u, !.upd[u].pc = "stats"]
    /\ UNCHANGED <<wsClients, pub, now, limiter, tunnelVars, authVars>>

\* broadcastStats: m.clientsMux.RLock() and the start of the range loop
broadcastStats(u) ==
    /\ mon.upd[u].pc = "stats"
    /\ mon.wlock = <<>>
    /\ mon' = [mon EXCEPT !.readers = @ \cup {u},
                          !.upd[u] = [pc |-> "loop", todo |-> mon.clients]]
    /\ UNCHANGED <<wsClients, pub, now, limiter, tunnelVars, authVars>>

\* one turn of the loop: conn.WriteMessage to client c; when it fails,
\* conn.Close and delete(m.clients, clientID)
broadcastWrite(u, c) ==
    /\ mon.upd[u].pc = "loop"
    /\ c \in mon.upd[u].todo
    /\ \E failed \in BOOLEAN :
         mon' = [mon EXCEPT !.upd[u].todo = @ \ {c},
                            !.clients = IF failed THEN @ \ {c} ELSE @]
    /\ UNCHANGED <<wsClients, pub, now, limiter, tunnelVars, authVars>>

\* the loop is over: the deferred RUnlock, then the deferred
\* statsMux.Unlock of UpdateTunnelStats
broadcastDone(u) ==
    /\ mon.upd[u].pc = "loop"
    /\ mon.upd[u].todo = {}
    /\ mon' = [mon EXCEPT !.readers = @ \ {u}, !.statsMux = None,
                          !.upd[u].pc = "idle"]
    /\ UNCHANGED <<wsClients, pub, now, limiter, tunnelVars, authVars>>

MonNext ==
    \/ \E c \in MonClients, op \in {"reg", "unreg"} : MonLock(c, op)
    \/ \E c \in MonClients : RegisterWebSocketClient(c)
    \/ \E c \in MonClients : UnregisterWebSocketClient(c)
    \/ \E u \in Updaters : UpdateTunnelStats(u)
    \/ \E u \in Updaters : broadcastStats(u)
    \/ \E u \in Updaters, c \in MonClients : broadcastWrite(u, c)
    \/ \E u \in Updaters : broadcastDone(u)

SpecMon == Init /\ [][MonNext]_vars

\* C35: the clients map changes only in a step of the goroutine that holds
\* clientsMux in write mode.
C35_MapWrittenUnderWriteLock ==
    [][mon'.clients # mon.clients => mon.wlock # <<>>]_vars

\* a step that changes the clients map is taken while no other goroutine
\* holds clientsMux in either mode
MonNoConcurrentAccess ==
    [][mon'.clients # mon.clients =>
         \/ mon.wlock # <<>> /\ mon.readers = {}
         \/ mon.wlock = <<>> /\ Cardinality(mon.readers) = 1]_vars

----------------------------------------------------------------------------
(* The failure counter under overlapping logins *)

\* C36: whenever no Login is in flight, the stored FailedLoginAttempts of
\* an account is the number of password attempts that failed since its last
\* successful Login: no failed attempt is lost, and a success resets it.
C36_NoFailedAttemptLost ==
    (\A k \in Calls : call[k].pc = "idle") =>
        \A id \in DOMAIN usersTable :
            usersTable[id].FailedLoginAttempts = FailedAttempts(id)

----------------------------------------------------------------------------
(* Refresh: one logged-in account; tokens are refreshed and validated, and *)
(* nobody logs out or changes the password.                                *)

RefreshNext ==
    \/ \E k \in Calls, t \in IssuedRefreshTokens : RefreshToken(k, t)
    \/ \E k \in Calls : RefreshSession(k)
    \/ \E k \in Calls, t \in AccessTokens : ValidateToken(k, t)
    \/ \E k \in Calls : ValidateTouch(k)

SpecRefresh == LoggedIn /\ [][RefreshNext]_vars

\* the access token that was issued together with the refresh token t
IssuedWith(t) == AccessToken(t[2], t[3])

\* C37: a ValidateToken that begins after a RefreshToken returned accepts
\* the access token the refresh returned and rejects the one it replaced.
C37_RefreshedTokenAccepted ==
    \A m, j \in DOMAIN hist :
        ( /\ hist[m].op = "RefreshToken"
          /\ hist[m].out = "ok"
          /\ hist[j].op = "ValidateToken"
          /\ hist[j].seen >= m )
        => /\ hist[j].token = hist[m].token => hist[j].out = "ok"
           /\ hist[j].token = IssuedWith(hist[m].refresh) => hist[j].out # "ok"

----------------------------------------------------------------------------
(* RateLimitMiddleware: per client IP a counter key in Redis, read with    *)
(* GET and then raised with a pipeline of INCR and EXPIRE.                 *)

MaxLimited == 4    \* requests that ever enter the middleware

ClientIPs == {"10.0.0.8", "10.0.0.9"}

\* the key "rate_limit:<clientIP>"
RateLimitKey(ip) == <<"rate_limit", ip>>

\* Get(ctx, key).Int(): the count, or 0 with redis.Nil for a missing key
RateLimitGet(ip) ==
    IF RateLimitKey(ip) \in DOMAIN redis THEN redis[RateLimitKey(ip)] ELSE 0

\* the middleware up to the test of the limit: over the limit the request
\* is answered with 429, otherwise it goes on to the pipeline
RateLimitMiddleware(q, ip) ==
    /\ limiter.pc[q] = "idle"
    /\ limiter.n < MaxLimited
    /\ limiter' = [limiter EXCEPT
           !.n = @ + 1,
           !.ip[q] = IF RateLimitGet(ip) >= RateLimitRequests THEN None ELSE ip,
           !.current[q] = IF RateLimitGet(ip) >= RateLimitRequests
                          THEN 0 ELSE RateLimitGet(ip),
           !.pc[q] = IF RateLimitGet(ip) >= RateLimitRequests
                     THEN "idle" ELSE "incr"]
    /\ UNCHANGED <<wsClients, pub, now, mon, tunnelVars, authVars>>

\* pipe.Incr, pipe.Expire, the headers and c.Next(): the request is admitted
RateLimitIncr(q) ==
    /\ limiter.pc[q] = "incr"
    /\ redis' = RedisSet(RateLimitKey(limiter.ip[q]),
                         RateLimitGet(limiter.ip[q]) + 1)
    /\ limiter' = [limiter EXCEPT !.pc[q] = "idle", !.ip[q] = None,
                                  !.current[q] = 0]
    /\ UNCHANGED <<usersTable, userSessions, call, hist, ncalls>>
    /\ UNCHANGED <<wsClients, pub, now, mon, tunnelVars>>

\* the window set by Expire runs out: Redis drops the key
RateLimitExpire(ip) ==
    /\ RateLimitKey(ip) \in DOMAIN redis
    /\ redis' = RedisDel({RateLimitKey(ip)})
    /\ UNCHANGED <<usersTable, userSessions, call, hist, ncalls>>
    /\ UNCHANGED <<wsClients, pub, now, mon, limiter, tunnelVars>>

LimitNext ==
    \/ \E q \in LimitReqs, ip \in ClientIPs : RateLimitMiddleware(q, ip)
    \/ \E q \in LimitReqs : RateLimitIncr(q)
    \/ \E ip \in ClientIPs : RateLimitExpire(ip)

SpecLimit == Init /\ [][LimitNext]_vars

\* C38: the counter of a live key counts the requests admitted since the key
\* was made, and it never exceeds RateLimitRequests.
C38_AdmittedWithinLimit ==
    \A ip \in ClientIPs : RateLimitGet(ip) <= RateLimitRequests

====
